---------------------------- MODULE Spec2Model ----------------------------
(* A model of the crawl scheduler of dkoh12/WebCrawler:                    *)
(*   src/crawl.py                 WebCrawler (single-threaded / thread pool)*)
(*   src/template/crawl_async.py  AsyncWebCrawler (asyncio)                 *)
(*   src/rate_limiter.py          the rate limiters                         *)
EXTENDS Integers, Sequences, FiniteSets, TLC

(***************************************************************************)
(* Bounds of the model                                                     *)
(***************************************************************************)
\* number of HTML pages of the crawled site (page 1 is the seed)
NumCallers == 2        \* coroutines calling one rate limiter
MaxCalls == 2          \* calls of acquire() per coroutine
MaxTime == 4           \* ticks the clock is followed for
MaxRequestsBound == 2  \* largest max_requests of a limiter
MaxWindow == 2         \* largest time_window of a limiter, in ticks
MaxTicksPerToken == 2  \* largest time_window / max_requests of a token bucket
MaxSpacing == 2        \* largest 1 / rate of a leaky bucket, in ticks
NumPages == 5
\* number of those pages that documents link to when the site is unconstrained
NumLinked == 3
\* longest list of <a href> links a fetched document holds
MaxLinks == 2
\* largest max_pages a crawler is constructed with
MaxPagesBound == 3
\* largest max_workers / max_concurrent a crawler is constructed with
MaxWorkersBound == 2
\* largest max_pages of a crawler whose seed is a file
MaxPagesSeedFile == 2
\* max_retries the scraper's ResponseHandler is constructed with
ScrapeMaxRetries == 2
\* largest max_pages scrape_all is called with
MaxScrapePages == 3
\* clock ticks per second (the resolution of the jitter of a 429 backoff)
TicksPerSecond == 2

(***************************************************************************)
(* Program constants                                                       *)
(***************************************************************************)
\* crawl.py:40, crawl_async.py:35   self.max_retries = 3
max_retries == 3
\* crawl.py:41, crawl_async.py:36   self.retry_delay_base = 2
retry_delay_base == 2
\* crawl.py:121                     timeout: int = 10
DefaultTimeout == 10
\* crawl.py:199                     new_timeout = timeout + 5
TimeoutIncrement == 5
\* crawl.py:31-35                   len(self.user_agents)
NumUserAgents == 3

(***************************************************************************)
(* URLs: the HTML pages of the crawled domain, a non-HTML file of the      *)
(* crawled domain (its path ends in a skipped extension), and a URL of     *)
(* another domain.                                                         *)
(***************************************************************************)
PageNames == <<"p1", "p2", "p3", "p4", "p5", "p6", "p7", "p8">>
Pages == {PageNames[i] : i \in 1..NumPages}
FileUrls == {"f.pdf"}
ExternalUrls == {"x.org"}
\* two more HTML pages of the crawled domain, three links from the home page
DeepPages == {PageNames[6], PageNames[7]}
URLs == Pages \cup DeepPages \cup FileUrls \cup ExternalUrls
\* the home page of the crawled domain, where crawls usually start
start_url == PageNames[1]

\* urlparse(url).netloc == base_domain           (crawl.py:87-91)
SameDomain(url) == url \in Pages \cup DeepPages \cup FileUrls
\* url.lower().endswith(skip_extensions)         (crawl.py:94-101)
HasSkipExtension(url) == url \in FileUrls
\* is_valid_url's return value                   (crawl.py:70-106)
is_valid_url(url) == SameDomain(url) /\ ~HasSkipExtension(url)
\* the URLs is_valid_url adds to files_found     (crawl.py:101-104)
FilesOf(links) ==
  {links[i] : i \in {j \in 1..Len(links) :
                        SameDomain(links[j]) /\ HasSkipExtension(links[j])}}

RECURSIVE FilterSeq(_, _)
\* the subsequence of s whose elements are in the set keep, in order
FilterSeq(s, keep) ==
  IF s = <<>> THEN <<>>
  ELSE IF Head(s) \in keep THEN <<Head(s)>> \o FilterSeq(Tail(s), keep)
       ELSE FilterSeq(Tail(s), keep)

\* get_links after a successful fetch: the hrefs that pass is_valid_url
ValidLinks(raw) == FilterSeq(raw, {u \in URLs : is_valid_url(u)})

Range(s) == {s[i] : i \in 1..Len(s)}

\* the URLs the documents of an unconstrained site link to
LinkedUrls ==
  {PageNames[i] : i \in 1..NumLinked} \cup FileUrls \cup ExternalUrls
\* every list of at most MaxLinks hrefs such a document can hold
LinkLists == UNION {[1..n -> LinkedUrls] : n \in 0..MaxLinks}

RECURSIVE Pow(_, _)
\* b ** e
Pow(b, e) == IF e = 0 THEN 1 ELSE b * Pow(b, e - 1)

Min2(a, b) == IF a < b THEN a ELSE b
Min3(a, b, c) == Min2(a, Min2(b, c))

(***************************************************************************)
(* User agents and robots.txt (urllib.robotparser.RobotFileParser)         *)
(***************************************************************************)
UserAgents == 1..NumUserAgents
\* Entry.applies_to compares useragent.split("/")[0].lower(); the three
\* strings of self.user_agents all start with "Mozilla/5.0", so the same
\* entry of robots.txt applies whichever of them is current.

\* RobotFileParser(): nothing read yet
NewRobotParser ==
  [disallow_all |-> FALSE, allow_all |-> FALSE, last_checked |-> 0,
   disallowed |-> {}]

\* What fetching robots.txt can do: the document is read and parsed into the
\* entry that applies to the crawler's agent token, disallowing a set of
\* pages; the server answers 401/403, another 4xx, or 5xx (HTTPError, handled
\* inside read); or urlopen raises something else (URLError: host unreachable).
RobotsOutcomes ==
  {[kind |-> "parsed", disallowed |-> d] : d \in SUBSET Pages}
  \cup {[kind |-> k, disallowed |-> {}] :
       k \in {"http401", "http404", "http500", "raises"}}

\* RobotFileParser.read() as load_robots_txt calls it; an exception read
\* raises is caught by load_robots_txt, which only prints
ReadRobots(rp, o) ==
  CASE o.kind = "parsed"  -> [rp EXCEPT !.last_checked = 1,
                                        !.disallowed = o.disallowed]
    [] o.kind = "http401" -> [rp EXCEPT !.disallow_all = TRUE]
    [] o.kind = "http404" -> [rp EXCEPT !.allow_all = TRUE]
    [] OTHER              -> rp

\* RobotFileParser.can_fetch(useragent, url)
RobotCanFetch(rp, ua, url) ==
  IF rp.disallow_all THEN FALSE
  ELSE IF rp.allow_all THEN TRUE
  ELSE IF rp.last_checked = 0 THEN FALSE
  ELSE url \notin rp.disallowed

(***************************************************************************)
(* fetch_with_retry: one attempt and its classification                    *)
(***************************************************************************)
StatusCodes == {200, 204, 301, 302, 401, 403, 404, 418, 429, 500, 503}
\* what one network attempt can end in: a response with a status code, or
\* an exception of requests / httpx
Outcomes ==
  {<<"status", c>> : c \in StatusCodes}
  \cup {<<"timeout", 0>>, <<"connerr", 0>>, <<"reqexc", 0>>}

\* the fresh RetryContext of a logical fetch: retry_count = 0, timeout = 10
NewContext == [retry_count |-> 0, timeout |-> DefaultTimeout]

\* a return that hands a response to the caller whatever the attempt ended in
ReturnsAlwaysResponse(resp) ==
  [kind |-> "return", response |-> TRUE, rotate |-> FALSE, delay |-> 0,
   retry_count |-> 0, timeout |-> 0]

\* return response / return None
Returns(resp) ==
  [kind |-> "return", response |-> resp, rotate |-> FALSE, delay |-> 0,
   retry_count |-> 0, timeout |-> 0]
\* a retry that does not count the attempt
RetriesWithoutCounting(ctx, rotate, delay, timeout) ==
  [kind |-> "retry", response |-> FALSE, rotate |-> rotate, delay |-> delay,
   retry_count |-> ctx.retry_count, timeout |-> timeout]

\* self.fetch_with_retry(url, retry_count + 1, ...), after the sleep
Retries(ctx, rotate, delay, timeout) ==
  [kind |-> "retry", response |-> FALSE, rotate |-> rotate, delay |-> delay,
   retry_count |-> ctx.retry_count + 1, timeout |-> timeout]

\* a retry test that allows one retry too many
MayRetryOnceMore(ctx) == ctx.retry_count <= max_retries

\* if retry_count < self.max_retries
MayRetry(ctx) == ctx.retry_count < max_retries

\* a backoff of one second at every attempt
BackoffConstant(ctx) == 1 * TicksPerSecond

\* a backoff that grows linearly instead of exponentially
BackoffLinear(ctx) == retry_delay_base * ctx.retry_count * TicksPerSecond

\* backoff = self.retry_delay_base ** retry_count, in ticks
Backoff(ctx) == Pow(retry_delay_base, ctx.retry_count) * TicksPerSecond

\* a timeout that doubles at each retry
NewTimeoutDoubled(ctx) == ctx.timeout * 2

\* new_timeout = timeout + 5
NewTimeout(ctx) == ctx.timeout + TimeoutIncrement

\* The decision fetch_with_retry takes on the outcome of the attempt made
\* with context ctx; jitter is random.uniform(0, 1) in ticks; delay is the
\* time slept before the recursive call, in ticks.
FetchStep(ctx, outcome, jitter) ==
  LET again == MayRetry(ctx)
      backoff == Backoff(ctx)
  IN
  IF outcome[1] = "status" THEN
    LET code == outcome[2] IN
    IF code = 200 THEN Returns(TRUE)
    ELSE IF code \in {301, 302} THEN Returns(TRUE)
    ELSE IF code = 404 THEN Returns(FALSE)
    ELSE IF code \in {403, 401} THEN
      IF again THEN Retries(ctx, TRUE, 1 * TicksPerSecond, ctx.timeout)
      ELSE Returns(FALSE)
    ELSE IF code = 429 THEN
      IF again THEN Retries(ctx, FALSE, backoff + jitter, ctx.timeout)
      ELSE Returns(FALSE)
    ELSE IF code \in {500, 503} THEN
      IF again THEN Retries(ctx, FALSE, backoff, ctx.timeout)
      ELSE Returns(FALSE)
    ELSE Returns(FALSE)
  ELSE IF outcome[1] = "timeout" THEN
    IF again
    THEN Retries(ctx, FALSE, 1 * TicksPerSecond, NewTimeout(ctx))
    ELSE Returns(FALSE)
  ELSE IF outcome[1] = "connerr" THEN
    IF again THEN Retries(ctx, FALSE, backoff, ctx.timeout)
    ELSE Returns(FALSE)
  ELSE Returns(FALSE)

\* the values random.uniform(0, 1) takes, in ticks: 0 <= jitter < 1 s
Jitters == 0..(TicksPerSecond - 1)


(***************************************************************************)
(* State of a crawl                                                        *)
(***************************************************************************)
VARIABLES
  impl,                \* "threads": crawl.py; "async": crawl_async.py
  max_pages,           \* self.max_pages
  max_workers,         \* self.max_workers / self.max_concurrent
  site,                \* the crawled site: open, or a fixed link graph
  seed,                \* the start_url argument crawl() was called with
  robot_parser,        \* self.robot_parser
  header_ua,           \* User-Agent header of the shared session / client
  current_user_agent,  \* AsyncWebCrawler.current_user_agent
  pc,                  \* where crawl() is: "idle" (not called), "load",
                       \* "loop", "wait", "done", "raised" (left by an
                       \* exception)
  to_visit,            \* the deque to_visit
  visited_urls,        \* self.visited_urls
  files_found,         \* self.files_found
  batch,               \* the list batch of the current iteration
  task,                \* task[u]: the _crawl_url / crawl_url call on u
  semaphore,           \* free permits of AsyncWebCrawler.semaphore
  lock,                \* self.lock: the URL whose worker holds it, or Unlocked
  requested,           \* history: URLs ever passed to session.get / client.get
  dispatched,          \* history: dispatched[u] = times u was handed to a fetch
  skipped,             \* history: URLs dequeued and not handed to a fetch
  robots_load,         \* history: what loading robots.txt ended in
  fetched              \* history: URLs whose document get_links received

\* what the construction of the crawler and the site fix
config == <<impl, max_pages, max_workers, site, seed>>
\* the identities: the header the requests carry, and the async attribute
agents == <<header_ua, current_user_agent>>
\* the history variables
history == <<requested, dispatched, skipped, robots_load, fetched>>

crawlVars ==
  <<config, robot_parser, agents, pc, to_visit, visited_urls, files_found,
    batch, task, semaphore, lock, history>>

(***************************************************************************)
(* State of one call of fetch_with_retry followed on its own               *)
(***************************************************************************)
VARIABLES
  f_pc,        \* "idle", "call", "request", "sleep", "returned"
  f_ctx,       \* the arguments of the current (recursive) call
  f_delay,     \* the argument of the time.sleep in progress, in ticks
  f_result,    \* what the outermost call returned: "response" or "None"
  f_attempts,  \* history: requests issued
  f_log,       \* history: the outcomes of the attempts, in order
  f_slept      \* history: total time slept between attempts, in ticks

fetchVars == <<f_pc, f_ctx, f_delay, f_result, f_attempts, f_log, f_slept>>

(***************************************************************************)
(* State of a SlidingWindowRateLimiter and of the coroutines that call it  *)
(***************************************************************************)
VARIABLES
  sw_max_requests,  \* self.max_requests
  sw_time_window,   \* self.time_window, in ticks
  sw_requests,      \* self.requests: the deque of admission instants
  sw_holder,        \* the coroutine a frame of which holds self.lock, or 0
  sw_waiters,       \* the coroutines suspended in self.lock.acquire(), FIFO
  sw_now,           \* time.monotonic(), in ticks
  sw_pc,            \* per coroutine: "idle", "sleeping", "waiting"
  sw_wake,          \* per coroutine: the instant its asyncio.sleep ends
  sw_calls,         \* history: calls of acquire() made by the coroutine
  sw_done,          \* history: calls of acquire() that returned to it
  sw_admits         \* history: the instants of all admissions, in order

limiterVars ==
  <<sw_max_requests, sw_time_window, sw_requests, sw_holder, sw_waiters,
    sw_now, sw_pc, sw_wake, sw_calls, sw_done, sw_admits>>

(***************************************************************************)
(* State of web_crawler.py's WebCrawler                                    *)
(***************************************************************************)
VARIABLES
  wc_pc,         \* "idle" (crawl() not called), "loop" or "done"
  wc_max_pages,  \* self.max_pages
  wc_visited,    \* self.visited
  wc_to_visit,   \* self.to_visit
  wc_fetches,    \* history: wc_fetches[u] = calls of fetch_page(u)
  wc_returned,   \* history: URLs for which fetch_page returned response.text
  wc_stats       \* the dict the last call of get_statistics returned

simpleVars ==
  <<wc_pc, wc_max_pages, wc_visited, wc_to_visit, wc_fetches, wc_returned,
    wc_stats>>

\* get_statistics was not called
NoStatistics == [visited_count |-> -1, queue_size |-> -1, visited_urls |-> <<>>]

(***************************************************************************)
(* State of a TokenBucketRateLimiter and of the coroutines that call it    *)
(***************************************************************************)
VARIABLES
  tb_max_requests,     \* self.max_requests
  tb_ticks_per_token,  \* self.time_window / self.max_requests, in ticks
  tb_tokens,           \* self.tokens, in units of 1 / tb_ticks_per_token
  tb_last_update,      \* self.last_update
  tb_holder,           \* the coroutine that holds self.lock, or 0
  tb_waiters,          \* the coroutines suspended in self.lock.acquire(), FIFO
  tb_now,              \* time.monotonic(), in ticks
  tb_pc,               \* per coroutine: "idle", "waiting", "granted", "sleeping"
  tb_wake,             \* per coroutine: the instant its asyncio.sleep ends
  tb_call,             \* history, per coroutine: its current call of acquire()
  tb_calls,            \* history: calls of acquire() made by the coroutine
  tb_admits            \* history: the calls that returned, in order

tokenVars ==
  <<tb_max_requests, tb_ticks_per_token, tb_tokens, tb_last_update, tb_holder,
    tb_waiters, tb_now, tb_pc, tb_wake, tb_call, tb_calls, tb_admits>>

(***************************************************************************)
(* State of a LeakyBucketRateLimiter and of the coroutines that call it    *)
(***************************************************************************)
VARIABLES
  lb_spacing,            \* 1.0 / self.rate, in ticks
  lb_last_request_time,  \* self.last_request_time; -1 stands for None
  lb_holder,             \* the coroutine that holds self.lock, or 0
  lb_waiters,            \* the coroutines suspended in self.lock.acquire(), FIFO
  lb_now,                \* time.monotonic(), in ticks
  lb_pc,                 \* per coroutine: "idle", "waiting", "granted", "sleeping"
  lb_wake,               \* per coroutine: the instant its asyncio.sleep ends
  lb_call,               \* history, per coroutine: its current call of acquire()
  lb_calls,              \* history: calls of acquire() made by the coroutine
  lb_admits              \* history: the calls that returned, in order

leakyVars ==
  <<lb_spacing, lb_last_request_time, lb_holder, lb_waiters, lb_now, lb_pc,
    lb_wake, lb_call, lb_calls, lb_admits>>

(***************************************************************************)
(* State of the Playwright scraper: QuoteScraper.scrape_all and its tasks  *)
(***************************************************************************)
VARIABLES
  qs_pc,              \* scrape_all: "idle", "loop", "gather", "done", "raised"
  qs_max_pages,       \* max_pages
  qs_max_concurrent,  \* max_concurrent
  qs_to_visit,        \* to_visit
  qs_visited_urls,    \* visited_urls
  qs_page_count,      \* page_count
  qs_batch,           \* batch
  qs_all_quotes,      \* all_quotes: the page each parsed list was read from
  qs_semaphore,       \* permits left of semaphore
  qs_task,            \* the scrape_url_task of each URL of the batch
  qs_page,            \* URL self.browser.page was last navigated to
  qs_scrapes          \* history: qs_scrapes[u] = scrape_url_task(u) started

scrapeVars ==
  <<qs_pc, qs_max_pages, qs_max_concurrent, qs_to_visit, qs_visited_urls,
    qs_page_count, qs_batch, qs_all_quotes, qs_semaphore, qs_task, qs_page,
    qs_scrapes>>

\* the pages of the scraped site; base_url is the first
QuotePages == {"q1", "q2", "q3"}
base_url == "q1"
\* browser.start() has not navigated anywhere
BlankPage == "about:blank"

\* QuoteScraper constructed and started; scrape_all(max_pages, max_concurrent)
\* is called and has run down to its while loop
ScraperStarted(mp, mc) ==
  /\ qs_max_pages = mp
  /\ qs_max_concurrent = mc
  /\ qs_to_visit = <<base_url>>
  /\ qs_visited_urls = {}
  /\ qs_page_count = 0
  /\ qs_batch = <<>>
  /\ qs_all_quotes = <<>>
  /\ qs_semaphore = mc
  /\ qs_task = [u \in {} |-> 0]
  /\ qs_page = BlankPage
  /\ qs_scrapes = [u \in {} |-> 0]

\* a scraper that is not run
ScrapeIdle == qs_pc = "idle" /\ ScraperStarted(1, 1)

\* what a crawl leaves alone: the crawlers construct and call no rate limiter
notCrawl == <<fetchVars, limiterVars, simpleVars, tokenVars, leakyVars, scrapeVars>>

\* what a call of fetch_with_retry leaves alone
notFetch ==
  <<config, robot_parser, pc, to_visit, visited_urls, files_found, batch,
    task, semaphore, lock, history, limiterVars, simpleVars, tokenVars,
    leakyVars, scrapeVars>>

vars == <<crawlVars, fetchVars, limiterVars, simpleVars, tokenVars, leakyVars, scrapeVars>>

\* An open site: any document may hold any list of links and any attempt may
\* end in any outcome.  A site that is not open has a fixed link graph, and
\* each of its URLs always answers with the same status code.
OpenSite ==
  [open |-> TRUE, links |-> [u \in {} |-> <<>>], status |-> [u \in {} |-> 0],
   raises |-> {}]
\* the href lists the document at u may hold
LinksOf(u) == IF site.open THEN LinkLists ELSE {site.links[u]}
\* the outcomes an attempt on u may end in
OutcomesOf(u) ==
  IF site.open THEN Outcomes ELSE {<<"status", site.status[u]>>}

\* The documents get_links cannot process: site.raises holds the URLs whose
\* document has, after its other links, an href on which urljoin raises
\* ValueError; fetch_with_retry catches the exceptions of the request only
\* (crawl.py:196-220), so get_links and _crawl_url end in that exception.
Raises(u) == u \in site.raises

\* _crawl_url(u) submitted: fetch_with_retry(url) is about to make its
\* first attempt
NewTask ==
  [st |-> "ready", retry_count |-> 0, links |-> <<>>, pending |-> <<>>]
\* self.lock = threading.Lock(): no thread holds it
Unlocked == "unlocked"
\* where the call on u is: "none" when no call on u is in progress
St(u) == IF u \in DOMAIN task THEN task[u].st ELSE "none"
\* how many times u was handed to a fetch
Times(u) == IF u \in DOMAIN dispatched THEN dispatched[u] ELSE 0

(***************************************************************************)
(* The coordinator: crawl()                                                *)
(***************************************************************************)
\* can_fetch(url): crawl.py reads the session's User-Agent header,
\* crawl_async.py reads self.current_user_agent
can_fetch(url) ==
  RobotCanFetch(robot_parser,
                IF impl = "async" THEN current_user_agent ELSE header_ua, url)

\* while to_visit and len(self.visited_urls) < self.max_pages
LoopCondition == to_visit # <<>> /\ Cardinality(visited_urls) < max_pages

\* a batch size that takes the whole queue
BatchSizeWholeQueue == Len(to_visit)

\* a batch size that forgets the worker count
BatchSizeIgnoringWorkers ==
  Min2(Len(to_visit), max_pages - Cardinality(visited_urls))

\* a batch size that forgets the remaining budget
BatchSizeIgnoringBudget == Min2(max_workers, Len(to_visit))

\* batch_size = min(max_workers, len(to_visit), max_pages - len(visited_urls))
BatchSize ==
  Min3(max_workers, Len(to_visit), max_pages - Cardinality(visited_urls))

\* a dequeue that forgets to ask can_fetch
AdmitsIgnoringRobots(url, visited) == url \notin visited

\* what the dequeue admits: an unvisited URL that can_fetch allows
Admits(url, visited) == url \notin visited /\ can_fetch(url)

\* the visited set replaced by the URL instead of extended by it
VisitedAddReplacing(visited, url) == {url}

\* self.visited_urls.add(url) (crawl.py:307, 333; crawl_async.py:291);
\* self.visited.add(url) (web_crawler.py:137)
VisitedAdd(visited, url) == visited \cup {url}

RECURSIVE TakeBatch(_, _, _, _)
\* for _ in range(batch_size): popleft, and add the URL to visited_urls and
\* to the batch if it is admitted
TakeBatch(n, queue, visited, b) ==
  IF n = 0 \/ queue = <<>>
  THEN [to_visit |-> queue, visited_urls |-> visited, batch |-> b]
  ELSE LET url == Head(queue) IN
       IF Admits(url, visited)
       THEN TakeBatch(n - 1, Tail(queue), VisitedAdd(visited, url),
                      Append(b, url))
       ELSE TakeBatch(n - 1, Tail(queue), visited, b)

\* a link taken for new whenever it is not visited
IsNewIgnoringQueue(link, queue, visited) == link \notin visited

\* a link taken for new whenever the queue does not hold it
IsNewIgnoringVisited(link, queue, visited) == link \notin Range(queue)

\* if link not in self.visited_urls and link not in to_visit
IsNew(link, queue, visited) == link \notin visited /\ link \notin Range(queue)

RECURSIVE Enqueue(_, _, _)
\* for link in links: append the link to to_visit if it is new
Enqueue(queue, visited, links) ==
  IF links = <<>> THEN queue
  ELSE Enqueue(IF IsNew(Head(links), queue, visited)
               THEN Append(queue, Head(links)) ELSE queue,
               visited, Tail(links))

RECURSIVE EnqueueAll(_, _, _, _)
\* for i, result in enumerate(results): enqueue result's links, in batch
\* order; a result that is an exception is printed and enqueues nothing
EnqueueAll(queue, visited, b, tasks) ==
  IF b = <<>> THEN queue
  ELSE EnqueueAll(IF tasks[Head(b)].st = "raised" THEN queue
                  ELSE Enqueue(queue, visited, tasks[Head(b)].links),
                  visited, Tail(b), tasks)

\* if self.max_workers == 1 (crawl.py only; crawl_async.py always batches)
SingleThreaded == impl = "threads" /\ max_workers = 1

\* self.load_robots_txt(start_url)
LoadRobots ==
  /\ pc = "load"
  /\ \E o \in RobotsOutcomes :
       /\ robot_parser' = ReadRobots(robot_parser, o)
       /\ robots_load' = o.kind
  /\ pc' = "loop"
  /\ UNCHANGED notCrawl
  /\ UNCHANGED <<config, lock, agents, to_visit, visited_urls, files_found, batch,
                 task, semaphore, requested, dispatched, skipped, fetched>>

\* crawl.py:296-309: one iteration of the single-threaded loop up to
\* get_links; a URL that is visited already, or that can_fetch refuses, is
\* dropped and the loop continues
DequeueSingle ==
  /\ pc = "loop" /\ SingleThreaded /\ LoopCondition
  /\ LET url == Head(to_visit) IN
       /\ to_visit' = Tail(to_visit)
       /\ IF ~Admits(url, visited_urls)
          THEN /\ skipped' = skipped \cup {url}
               /\ UNCHANGED <<pc, visited_urls, batch, task, dispatched>>
          ELSE /\ visited_urls' = VisitedAdd(visited_urls, url)
               /\ batch' = <<url>>
               /\ task' = (url :> NewTask)
               /\ dispatched' = [u \in DOMAIN dispatched \cup {url} |->
                                   Times(u) + IF u = url THEN 1 ELSE 0]
               /\ pc' = "wait"
               /\ UNCHANGED skipped
  /\ UNCHANGED notCrawl
  /\ UNCHANGED <<config, lock, robot_parser, agents, files_found, semaphore,
                 requested, robots_load, fetched>>

\* crawl.py:322-343, crawl_async.py:280-298: prepare a batch and dispatch
\* it; an empty batch breaks out of the loop
DequeueBatch ==
  /\ pc = "loop" /\ ~SingleThreaded /\ LoopCondition
  /\ LET r == TakeBatch(BatchSize, to_visit, visited_urls, <<>>) IN
       /\ to_visit' = r.to_visit
       /\ visited_urls' = r.visited_urls
       /\ batch' = r.batch
       /\ skipped' = skipped \cup
            ((Range(to_visit) \ Range(r.to_visit)) \ Range(r.batch))
       /\ task' = [u \in Range(r.batch) |-> NewTask]
       /\ dispatched' = [u \in DOMAIN dispatched \cup Range(r.batch) |->
                           Times(u) + IF u \in Range(r.batch) THEN 1 ELSE 0]
       /\ pc' = IF r.batch = <<>> THEN "done" ELSE "wait"
  /\ UNCHANGED notCrawl
  /\ UNCHANGED <<config, lock, robot_parser, agents, files_found, semaphore,
                 requested, robots_load, fetched>>

\* the while condition is false: crawl() returns self.visited_urls
LoopExit ==
  /\ pc = "loop" /\ ~LoopCondition
  /\ pc' = "done"
  /\ UNCHANGED notCrawl
  /\ UNCHANGED <<config, lock, robot_parser, agents, to_visit, visited_urls,
                 files_found, batch, task, semaphore, history>>

(***************************************************************************)
(* The workers: _crawl_url -> get_links -> fetch_with_retry                *)
(***************************************************************************)
\* The RetryContext of the attempt task t makes.  A crawl keeps the attempt
\* counter of each call; the timeout handed to the request changes nothing a
\* crawl observes and is followed in the specification of a single fetch.
ContextOf(t) == [retry_count |-> t.retry_count, timeout |-> DefaultTimeout]

\* a request issued without taking a permit of the semaphore
SendRequestUnguarded(u) ==
  /\ St(u) = "ready"
  /\ task' = [task EXCEPT ![u].st = "inflight"]
  /\ requested' = requested \cup {u}
  /\ UNCHANGED notCrawl
  /\ UNCHANGED <<config, lock, robot_parser, agents, pc, to_visit, visited_urls,
                 files_found, batch, semaphore, dispatched, skipped,
                 robots_load, fetched>>

\* session.get(url, timeout) is issued (crawl.py:134);
\* async with self.semaphore: client.get(url, timeout) is issued
\* (crawl_async.py:123-124)
SendRequest(u) ==
  /\ St(u) = "ready"
  /\ IF impl = "async"
     THEN semaphore > 0 /\ semaphore' = semaphore - 1
     ELSE UNCHANGED semaphore
  /\ task' = [task EXCEPT ![u].st = "inflight"]
  /\ requested' = requested \cup {u}
  /\ UNCHANGED notCrawl
  /\ UNCHANGED <<config, lock, robot_parser, agents, pc, to_visit, visited_urls,
                 files_found, batch, dispatched, skipped, robots_load,
                 fetched>>

\* rotate_user_agent: random.choice(self.user_agents); crawl.py updates the
\* session's header, crawl_async.py updates self.current_user_agent
RotateUserAgent ==
  \E ua \in UserAgents :
     IF impl = "async"
     THEN current_user_agent' = ua /\ UNCHANGED header_ua
     ELSE header_ua' = ua /\ UNCHANGED current_user_agent

\* a get_links that makes up a link when there is no response
GetLinksOfNoneGuessing(u) == <<PageNames[2]>>

\* if response is None: return []
GetLinksOfNone(u) == <<>>

\* the attempt on u ends; fetch_with_retry classifies it and either calls
\* itself again (after sleeping) or returns to get_links, which returns the
\* valid links of the document, or [] when there is no response
Response(u) ==
  /\ St(u) = "inflight"
  /\ IF impl = "async" THEN semaphore' = semaphore + 1
     ELSE UNCHANGED semaphore
  /\ \E d \in {FetchStep(ContextOf(task[u]), o, j) :
                    o \in OutcomesOf(u), j \in Jitters} :
       IF d.kind = "retry"
       THEN /\ task' = [task EXCEPT ![u].st = "ready",
                                    ![u].retry_count = d.retry_count]
            /\ IF d.rotate THEN RotateUserAgent ELSE UNCHANGED agents
            /\ UNCHANGED <<files_found, fetched>>
       ELSE /\ UNCHANGED agents
            /\ IF d.response
               THEN \E r \in {<<ValidLinks(raw), FilesOf(raw)>> :
                                 raw \in LinksOf(u)} :
                      /\ task' = IF Raises(u)
                                 THEN [task EXCEPT ![u].st = "raised"]
                                 ELSE [task EXCEPT ![u].st = "done",
                                                   ![u].links = r[1]]
                      /\ files_found' = files_found \cup r[2]
                      /\ fetched' = fetched \cup {u}
               ELSE /\ task' = [task EXCEPT ![u].st = "done",
                                              ![u].links = GetLinksOfNone(u)]
                    /\ UNCHANGED <<files_found, fetched>>
  /\ UNCHANGED notCrawl
  /\ UNCHANGED <<config, lock, robot_parser, pc, to_visit, visited_urls, batch,
                 requested, dispatched, skipped, robots_load>>

\* the call on u has returned or raised
Finished(u) == St(u) \in {"done", "raised"}

\* the thread-pool loop without its try ... except Exception
ProcessResultUncaught(u) ==
  /\ pc = "wait" /\ impl = "threads"
  /\ Finished(u)
  /\ to_visit' = IF St(u) = "raised" THEN to_visit
                 ELSE Enqueue(to_visit, visited_urls, task[u].links)
  /\ task' = [v \in DOMAIN task \ {u} |-> task[v]]
  /\ pc' = IF St(u) = "raised" THEN "raised"
           ELSE IF DOMAIN task = {u} THEN "loop" ELSE "wait"
  /\ UNCHANGED notCrawl
  /\ UNCHANGED <<config, lock, robot_parser, agents, visited_urls, files_found,
                 batch, semaphore, history>>

\* crawl.py:309-315 and 346-359: the links of one finished call are enqueued;
\* after the last one of the batch the loop sleeps and goes round.  An
\* exception of the call is caught and printed in the thread-pool loop
\* (crawl.py:347-356); the single-threaded loop calls get_links itself
\* (crawl.py:309), and the exception ends crawl().
ProcessResult(u) ==
  /\ pc = "wait" /\ impl = "threads"
  /\ Finished(u)
  /\ to_visit' = IF St(u) = "raised" THEN to_visit
                 ELSE Enqueue(to_visit, visited_urls, task[u].links)
  /\ task' = [v \in DOMAIN task \ {u} |-> task[v]]
  /\ pc' = IF St(u) = "raised" /\ SingleThreaded THEN "raised"
           ELSE IF DOMAIN task = {u} THEN "loop" ELSE "wait"
  /\ UNCHANGED notCrawl
  /\ UNCHANGED <<config, lock, robot_parser, agents, visited_urls, files_found,
                 batch, semaphore, history>>

\* crawl_async.py:299-312: gather(return_exceptions=True) has every result,
\* the exceptions among them; they are processed in batch order, an
\* exception is printed, then the loop sleeps and goes round
ProcessBatchAsync ==
  /\ pc = "wait" /\ impl = "async"
  /\ \A u \in Range(batch) : Finished(u)
  /\ to_visit' = EnqueueAll(to_visit, visited_urls, batch, task)
  /\ task' = [u \in {} |-> NewTask]
  /\ pc' = "loop"
  /\ UNCHANGED notCrawl
  /\ UNCHANGED <<config, lock, robot_parser, agents, visited_urls, files_found,
                 batch, semaphore, history>>

(***************************************************************************)
(* Specification of a crawl of an open site                                *)
(***************************************************************************)
\* __init__ and to_visit = deque([start_url]), the state crawl() starts from
CrawlerConstructed ==
  /\ robot_parser = NewRobotParser
  /\ header_ua = 1
  /\ current_user_agent = 1
  /\ to_visit = <<seed>>
  /\ visited_urls = {}
  /\ files_found = {}
  /\ batch = <<>>
  /\ task = [u \in {} |-> NewTask]
  /\ semaphore = max_workers
  /\ lock = Unlocked
  /\ requested = {}
  /\ dispatched = [u \in {} |-> 0]
  /\ skipped = {}
  /\ robots_load = "none"
  /\ fetched = {}

\* no call of fetch_with_retry is followed on its own
FetchIdle ==
  /\ f_pc = "idle"
  /\ f_ctx = NewContext
  /\ f_delay = 0
  /\ f_result = "none"
  /\ f_attempts = 0
  /\ f_log = <<>>
  /\ f_slept = 0

\* a web_crawler.py WebCrawler that is constructed and not run
SimpleIdle ==
  /\ wc_pc = "idle"
  /\ wc_max_pages = 1
  /\ wc_visited = {}
  /\ wc_to_visit = <<start_url>>
  /\ wc_fetches = [u \in {} |-> 0]
  /\ wc_returned = {}
  /\ wc_stats = NoStatistics

\* a call of acquire() issued at instant t that has not slept yet
NewCall(t) == [issued |-> t, sleeps |-> 0, wait |-> 0]

\* TokenBucketRateLimiter(max_requests, time_window) constructed at instant
\* 0 with time_window = max_requests * ticks_per_token: self.tokens is
\* max_requests, and the coroutines have not called it
TokenConstructed(max_requests, ticks_per_token) ==
  /\ tb_max_requests = max_requests
  /\ tb_ticks_per_token = ticks_per_token
  /\ tb_tokens = max_requests * ticks_per_token
  /\ tb_last_update = 0
  /\ tb_holder = 0
  /\ tb_waiters = <<>>
  /\ tb_now = 0
  /\ tb_pc = [c \in 1..NumCallers |-> "idle"]
  /\ tb_wake = [c \in 1..NumCallers |-> 0]
  /\ tb_call = [c \in 1..NumCallers |-> NewCall(0)]
  /\ tb_calls = [c \in 1..NumCallers |-> 0]
  /\ tb_admits = <<>>

\* a token bucket that nothing calls
TokenIdle == TokenConstructed(1, 1)

\* self.last_request_time = None
NoRequestYet == -1

\* LeakyBucketRateLimiter(rate) with 1 / rate = spacing ticks; the
\* coroutines have not called it
LeakyConstructed(spacing) ==
  /\ lb_spacing = spacing
  /\ lb_last_request_time = NoRequestYet
  /\ lb_holder = 0
  /\ lb_waiters = <<>>
  /\ lb_now = 0
  /\ lb_pc = [c \in 1..NumCallers |-> "idle"]
  /\ lb_wake = [c \in 1..NumCallers |-> 0]
  /\ lb_call = [c \in 1..NumCallers |-> NewCall(0)]
  /\ lb_calls = [c \in 1..NumCallers |-> 0]
  /\ lb_admits = <<>>

\* a leaky bucket that nothing calls
LeakyIdle == LeakyConstructed(1)

\* the coroutines that call the limiter
Callers == 1..NumCallers

\* a limiter that nothing calls
LimiterIdle ==
  /\ sw_max_requests = 1
  /\ sw_time_window = 1
  /\ sw_requests = <<>>
  /\ sw_holder = 0
  /\ sw_waiters = <<>>
  /\ sw_now = 0
  /\ sw_pc = [c \in Callers |-> "idle"]
  /\ sw_wake = [c \in Callers |-> 0]
  /\ sw_calls = [c \in Callers |-> 0]
  /\ sw_done = [c \in Callers |-> 0]
  /\ sw_admits = <<>>

Init ==
  /\ impl \in {"threads", "async"}
  /\ max_pages \in 1..MaxPagesBound
  /\ max_workers \in 1..MaxWorkersBound
  /\ site = OpenSite
  /\ seed = start_url
  /\ CrawlerConstructed
  /\ pc = "load"
  /\ FetchIdle
  /\ LimiterIdle
  /\ SimpleIdle
  /\ TokenIdle
  /\ LeakyIdle
  /\ ScrapeIdle

\* the steps of crawl() once robots.txt is loaded
CrawlLoop ==
  \/ DequeueSingle
  \/ DequeueBatch
  \/ LoopExit
  \/ \E u \in URLs : SendRequest(u)
  \/ \E u \in URLs : Response(u)
  \/ \E u \in URLs : ProcessResult(u)
  \/ ProcessBatchAsync

Next == LoadRobots \/ CrawlLoop

Spec == Init /\ [][Next]_vars

(***************************************************************************)
(* Properties of the crawl                                                 *)
(***************************************************************************)
InFlight == {u \in URLs : St(u) = "inflight"}

\* C1: in every reachable state of a crawl (single-threaded, thread pool or
\* async) at most max_pages URLs are in visited_urls, and no URL has been
\* dispatched to a fetch more than once.
C1_BudgetAndSingleDispatch ==
  /\ Cardinality(visited_urls) <= max_pages
  /\ \A u \in URLs : Times(u) <= 1

\* a batch crawl of two workers that stopped on its budget with a URL still
\* queued
C1_Witness ==
  /\ pc = "done" /\ max_workers >= 2
  /\ Cardinality(visited_urls) = max_pages
  /\ to_visit # <<>>
  /\ \A u \in visited_urls : Times(u) = 1

\* C2: when the coordinator loop of a batch crawl (thread pool or async) has
\* ended, no allowed, unvisited URL is left in to_visit while budget remains.
C2_LoopEndsOnlyWhenExhausted ==
  (pc = "done" /\ ~SingleThreaded) =>
     ~(/\ Cardinality(visited_urls) < max_pages
       /\ \E i \in 1..Len(to_visit) :
            to_visit[i] \notin visited_urls /\ can_fetch(to_visit[i]))

\* C5: a URL that can_fetch refuses is never passed to a network request.
C5_DisallowedNeverRequested ==
  \A u \in URLs : ~can_fetch(u) => u \notin requested

\* a refused URL has been dequeued and dropped, and the crawl went on to
\* request another URL after it
C5_Witness ==
  /\ pc = "done"
  /\ \E u \in skipped : ~can_fetch(u) /\ u \notin requested
  /\ Cardinality(requested) >= 2

\* C6: after a load of robots.txt that failed with an exception (caught by
\* load_robots_txt), can_fetch answers True for every URL.
C6_LoadFailureIsPermissive ==
  robots_load = "raises" => \A u \in URLs : can_fetch(u)

\* C10: while a fetch of u is in progress in a thread pool of two or more
\* workers, the session's User-Agent is changed only by u's own retry.
C10_NoForeignRotation ==
  [][\A u \in DOMAIN task :
       (/\ impl = "threads" /\ max_workers >= 2
        /\ task[u].st \in {"ready", "inflight"} /\ u \in requested
        /\ header_ua' # header_ua)
       => (u \in DOMAIN task' /\ task'[u].retry_count # task[u].retry_count)
    ]_vars


(***************************************************************************)
(* Specification of one call fetch_with_retry(url) against an open site    *)
(***************************************************************************)
\* a crawler that exists but does not crawl
CrawlerIdle ==
  /\ impl = "threads"
  /\ max_pages = 1
  /\ max_workers = 1
  /\ site = OpenSite
  /\ seed = start_url
  /\ CrawlerConstructed
  /\ pc = "idle"

\* get_links calls fetch_with_retry(url): timeout = 10, retry_count = 0
InitFetch ==
  /\ CrawlerIdle
  /\ f_pc = "call"
  /\ f_ctx = NewContext
  /\ f_delay = 0
  /\ f_result = "none"
  /\ f_attempts = 0
  /\ f_log = <<>>
  /\ f_slept = 0
  /\ LimiterIdle
  /\ SimpleIdle
  /\ TokenIdle
  /\ LeakyIdle
  /\ ScrapeIdle

\* session.get(url, timeout=timeout) / client.get is issued
FetchSend ==
  /\ f_pc = "call"
  /\ f_pc' = "request"
  /\ f_attempts' = f_attempts + 1
  /\ UNCHANGED <<f_ctx, f_delay, f_result, f_log, f_slept>>
  /\ UNCHANGED <<agents, notFetch>>

\* the request ends in outcome o; the call returns, or rotates the user
\* agent where the branch says so and sleeps before it calls itself with
\* retry_count + 1
FetchReceive ==
  /\ f_pc = "request"
  /\ \E o \in Outcomes, j \in Jitters :
       LET d == FetchStep(f_ctx, o, j) IN
         /\ f_log' = Append(f_log, o)
         /\ IF d.kind = "retry"
            THEN /\ f_pc' = "sleep"
                 /\ f_delay' = d.delay
                 /\ f_ctx' = [retry_count |-> d.retry_count,
                              timeout |-> d.timeout]
                 /\ IF d.rotate THEN RotateUserAgent ELSE UNCHANGED agents
                 /\ UNCHANGED f_result
            ELSE /\ f_pc' = "returned"
                 /\ f_result' = IF d.response THEN "response" ELSE "None"
                 /\ UNCHANGED <<f_ctx, f_delay, agents>>
  /\ UNCHANGED <<f_attempts, f_slept>>
  /\ UNCHANGED notFetch

\* time.sleep(delay) / asyncio.sleep(delay) is over: the recursive call starts
FetchWake ==
  /\ f_pc = "sleep"
  /\ f_pc' = "call"
  /\ f_slept' = f_slept + f_delay
  /\ f_delay' = 0
  /\ UNCHANGED <<f_ctx, f_result, f_attempts, f_log>>
  /\ UNCHANGED <<agents, notFetch>>

NextFetch == FetchSend \/ FetchReceive \/ FetchWake

SpecFetch == InitFetch /\ [][NextFetch]_vars

\* the outcomes after which fetch_with_retry retries while retries are left
Retryable ==
  {<<"status", c>> : c \in {401, 403, 429, 500, 503}}
  \cup {<<"timeout", 0>>, <<"connerr", 0>>}

RECURSIVE SumPow(_, _)
\* b^0 + b^1 + ... + b^(n-1)
SumPow(b, n) == IF n = 0 THEN 0 ELSE SumPow(b, n - 1) + Pow(b, n - 1)

\* C7: a call whose attempts all ended in retryable outcomes has made exactly
\* max_retries + 1 requests (4) when it returns, and it returns None; no call
\* ever makes more than max_retries + 1 requests.
C7_AttemptsBounded ==
  /\ f_attempts <= max_retries + 1
  /\ (f_pc = "returned" /\ Range(f_log) \subseteq Retryable) =>
        (f_attempts = max_retries + 1 /\ f_attempts = 4 /\ f_result = "None")

\* a call returned after four attempts that ended in three or more different
\* retryable outcomes
C7_Witness ==
  /\ f_pc = "returned"
  /\ Range(f_log) \subseteq Retryable
  /\ Cardinality(Range(f_log)) >= 3
  /\ f_attempts = 4

\* C19: a call of fetch_with_retry whose last attempt was answered with a
\* status code from 200 through 299 returns the response.
C19_Every2xxIsSuccess ==
  (f_pc = "returned" /\ f_log[Len(f_log)][1] = "status"
                     /\ f_log[Len(f_log)][2] \in 200..299) =>
     f_result = "response"

\* C20: a step of crawl.py's fetch_with_retry that answers a 401 or 403 by a
\* retry leaves in the session a user agent different from the one the
\* failed attempt was made with, for the next attempt to use.
C20_RotationChangesAgent ==
  [][(/\ f_pc = "request" /\ f_pc' = "sleep"
      /\ f_log'[Len(f_log')] \in {<<"status", 401>>, <<"status", 403>>})
     => header_ua' # header_ua]_vars

\* C8: a call whose attempts all ended in 429 has, when it returns, slept at
\* least retry_delay_base^0 + ... + retry_delay_base^(max_retries-1) seconds
\* (7 s) and less than that plus one second of jitter per retry (10 s).
C8_BackoffTotal ==
  (f_pc = "returned" /\ Range(f_log) = {<<"status", 429>>}) =>
     /\ f_slept >= SumPow(retry_delay_base, max_retries) * TicksPerSecond
     /\ f_slept >= 7 * TicksPerSecond
     /\ f_slept < (7 + 3) * TicksPerSecond
     /\ f_slept <
          (SumPow(retry_delay_base, max_retries) + max_retries) * TicksPerSecond

\* a call that met 429 four times returned, having slept more than 7 s
C8_Witness ==
  /\ f_pc = "returned"
  /\ f_log = [i \in 1..4 |-> <<"status", 429>>]
  /\ f_slept > 7 * TicksPerSecond


(***************************************************************************)
(* Specification of SlidingWindowRateLimiter under concurrent callers      *)
(***************************************************************************)
\* SlidingWindowRateLimiter(max_requests, time_window); nothing has called it
InitSliding ==
  /\ CrawlerIdle
  /\ FetchIdle
  /\ SimpleIdle
  /\ TokenIdle
  /\ LeakyIdle
  /\ ScrapeIdle
  /\ sw_max_requests \in 1..MaxRequestsBound
  /\ sw_time_window \in 1..MaxWindow
  /\ sw_requests = <<>>
  /\ sw_holder = 0
  /\ sw_waiters = <<>>
  /\ sw_now = 0
  /\ sw_pc = [c \in Callers |-> "idle"]
  /\ sw_wake = [c \in Callers |-> 0]
  /\ sw_calls = [c \in Callers |-> 0]
  /\ sw_done = [c \in Callers |-> 0]
  /\ sw_admits = <<>>

RECURSIVE DropExpired(_, _, _)
\* while self.requests and self.requests[0] <= now - self.time_window: popleft
DropExpired(reqs, now, window) ==
  IF reqs # <<>> /\ Head(reqs) <= now - window
  THEN DropExpired(Tail(reqs), now, window)
  ELSE reqs

\* a limit test that admits one request too many
AtLimitOffByOne(reqs) == Len(reqs) > sw_max_requests

\* if len(self.requests) >= self.max_requests
AtLimit(reqs) == Len(reqs) >= sw_max_requests

\* One frame of acquire() run by coroutine c up to its first suspension.
\* `async with self.lock` suspends when the lock is held, whoever holds it:
\* asyncio.Lock knows no owner.  With the lock free the frame takes it and runs
\* without suspension either to the end of the block, where it releases the
\* lock it took and returns through every frame of the call, or to
\* asyncio.sleep(wait_time), keeping the lock.
EnterAcquire(c) ==
  IF sw_holder # 0
  THEN /\ sw_pc' = [sw_pc EXCEPT ![c] = "waiting"]
       /\ sw_waiters' = Append(sw_waiters, c)
       /\ UNCHANGED <<sw_requests, sw_holder, sw_wake, sw_done, sw_admits>>
  ELSE LET now == sw_now
           kept == DropExpired(sw_requests, now, sw_time_window)
           wait_time == Head(kept) + sw_time_window - now
       IN IF AtLimit(kept) /\ wait_time > 0
          THEN /\ sw_requests' = kept
               /\ sw_holder' = c
               /\ sw_pc' = [sw_pc EXCEPT ![c] = "sleeping"]
               /\ sw_wake' = [sw_wake EXCEPT ![c] = now + wait_time]
               /\ UNCHANGED <<sw_waiters, sw_done, sw_admits>>
          ELSE /\ sw_requests' = Append(kept, now)
               /\ sw_admits' = Append(sw_admits, now)
               /\ sw_pc' = [sw_pc EXCEPT ![c] = "idle"]
               /\ sw_done' = [sw_done EXCEPT ![c] = @ + 1]
               /\ UNCHANGED <<sw_holder, sw_waiters, sw_wake>>

\* what the limiter's configuration and the other specifications' state do
limiterFrame ==
  /\ UNCHANGED <<sw_max_requests, sw_time_window>>
  /\ UNCHANGED <<crawlVars, fetchVars, simpleVars, tokenVars, leakyVars, scrapeVars>>

\* coroutine c calls `await limiter.acquire()`
SwAcquire(c) ==
  /\ sw_pc[c] = "idle"
  /\ sw_calls[c] < MaxCalls
  /\ sw_calls' = [sw_calls EXCEPT ![c] = @ + 1]
  /\ EnterAcquire(c)
  /\ UNCHANGED sw_now
  /\ limiterFrame

\* asyncio.sleep(wait_time) is over: `return await self.acquire()`, called
\* inside the `async with self.lock` block of the sleeping frame
SwWake(c) ==
  /\ sw_pc[c] = "sleeping"
  /\ sw_now >= sw_wake[c]
  /\ EnterAcquire(c)
  /\ UNCHANGED <<sw_now, sw_calls>>
  /\ limiterFrame

\* time.monotonic() advances
SwTick ==
  /\ sw_now < MaxTime
  /\ sw_now' = sw_now + 1
  /\ UNCHANGED <<sw_requests, sw_holder, sw_waiters, sw_pc, sw_wake,
                 sw_calls, sw_done, sw_admits>>
  /\ limiterFrame

NextSliding == (\E c \in Callers : SwAcquire(c) \/ SwWake(c)) \/ SwTick

SpecSliding == InitSliding /\ [][NextSliding]_vars

\* the admissions at instants in the interval (t - time_window, t]
AdmittedInWindow(t) ==
  Cardinality({i \in 1..Len(sw_admits) :
                 sw_admits[i] > t - sw_time_window /\ sw_admits[i] <= t})

\* C14: at every instant t of a run of a SlidingWindowRateLimiter with any
\* number of concurrent callers, at most max_requests calls of acquire() were
\* admitted in the trailing interval (t - time_window, t].
C14_WindowBound ==
  \A t \in 0..sw_now : AdmittedInWindow(t) <= sw_max_requests

\* the window is full with two admissions of different coroutines, a further
\* call was refused and sleeps, and an earlier admission has left the window
C14_Witness ==
  /\ sw_max_requests = 2
  /\ AdmittedInWindow(sw_now) = 2
  /\ Len(sw_admits) >= 3
  /\ \E c \in Callers : sw_pc[c] = "sleeping"
  /\ \A c \in Callers : sw_done[c] >= 1

\* C4: no call of acquire() is suspended on the limiter's lock while the lock
\* is held by a frame of that same call, which resumes only when the suspended
\* frame returns; a call in that state never returns.
C4_NeverBlockedOnOwnLock ==
  \A c \in Callers : ~(sw_pc[c] = "waiting" /\ sw_holder = c)


(***************************************************************************)
(* Specification of crawls of one fixed site under different worker counts *)
(***************************************************************************)
\* the worker counts the crawls of one site are compared under
WorkerCounts == {1, 2, 8}

\* the lists without repetition of at most n elements of S
InjectiveLists(S, n) ==
  {l \in UNION {[1..k -> S] : k \in 0..n} :
     \A i, j \in 1..Len(l) : i # j => l[i] # l[j]}

\* The link graphs: the seed links to up to three other pages in any order,
\* the second page to nothing, to the last page or back to the seed, every
\* other page to nothing.
Graphs ==
  {[u \in Pages |-> IF u = start_url THEN l
                    ELSE IF u = PageNames[2] THEN t ELSE <<>>] :
     l \in InjectiveLists(Pages \ {start_url}, 3),
     t \in {<<>>, <<PageNames[NumPages]>>, <<start_url>>}}

\* The fetch outcomes: every page answers 200 on every attempt, or all but
\* the second, which answers 404, or all but the third, which answers 503.
Statuses ==
  {[u \in Pages |-> IF u = f[1] THEN f[2] ELSE 200] :
     f \in {<<PageNames[1], 200>>, <<PageNames[2], 404>>,
            <<PageNames[3], 503>>}}

\* the sites the crawls are compared on
Sites ==
  {[open |-> FALSE, links |-> g, status |-> st, raises |-> {}] :
     g \in Graphs, st \in Statuses}

\* a crawler constructed for a site whose pages, all told, fit max_pages
InitGraph ==
  /\ impl \in {"threads", "async"}
  /\ max_pages = NumPages
  /\ max_workers \in WorkerCounts
  /\ site \in Sites
  /\ seed = start_url
  /\ CrawlerConstructed
  /\ pc = "load"
  /\ FetchIdle
  /\ LimiterIdle
  /\ SimpleIdle
  /\ TokenIdle
  /\ LeakyIdle
  /\ ScrapeIdle

SpecGraph == InitGraph /\ [][Next]_vars

RECURSIVE FetchFinal(_, _)
\* whether fetch_with_retry returns a response when every attempt on the URL
\* ends in outcome o
FetchFinal(ctx, o) ==
  LET d == FetchStep(ctx, o, 0) IN
    IF d.kind = "retry"
    THEN FetchFinal([retry_count |-> d.retry_count, timeout |-> d.timeout], o)
    ELSE d.response

\* get_links(url) on the fixed site: the valid links of the page, or [] when
\* fetch_with_retry returns None
GetLinks(u) ==
  IF FetchFinal(NewContext, <<"status", site.status[u]>>)
  THEN ValidLinks(site.links[u])
  ELSE <<>>

RECURSIVE SingleCrawl(_, _)
\* crawl.py:294-315 run to its end from queue and visited: the visited_urls
\* the single-threaded loop returns
SingleCrawl(queue, visited) ==
  IF queue = <<>> \/ Cardinality(visited) >= max_pages
  THEN visited
  ELSE LET url == Head(queue) IN
       IF ~Admits(url, visited)
       THEN SingleCrawl(Tail(queue), visited)
       ELSE SingleCrawl(Enqueue(Tail(queue), visited \cup {url}, GetLinks(url)),
                        visited \cup {url})

\* C3: on a site whose pages number at most max_pages, with the same seed,
\* directives and fetch outcomes, crawl.py's crawl returns for each of
\* max_workers = 1, 2 and 8 the visited_urls that its single-threaded loop
\* returns.
C3_SameVisitedForAnyWorkers ==
  (pc = "done" /\ impl = "threads" /\ ~site.open) =>
     visited_urls = SingleCrawl(<<start_url>>, {})


(***************************************************************************)
(* The crawlers and the rate limiters                                      *)
(***************************************************************************)
RECURSIVE DoneUpTo(_)
\* the calls of acquire() that have returned to coroutines 1..n
DoneUpTo(n) == IF n = 0 THEN 0 ELSE DoneUpTo(n - 1) + sw_done[n]

\* the calls of acquire() that have returned
SwCompleted == DoneUpTo(NumCallers)

Removed == skipped \cup DOMAIN dispatched

\* C11: between batches and at the end of crawl.py's crawl, every URL removed
\* from to_visit, those that robots.txt refuses included, has exactly one
\* outcome: its document was fetched and its links processed, or its failure
\* is recorded by the URL being in visited_urls without a fetched document.
C11_ExactlyOneOutcome ==
  (impl = "threads" /\ pc \in {"loop", "done"}) =>
     \A u \in Removed :
        (u \in fetched) # (u \notin fetched /\ u \in visited_urls)


(***************************************************************************)
(* Specification of web_crawler.py's crawl of an open site                 *)
(***************************************************************************)
\* web_crawler.py's is_valid_url with same_domain_only: scheme, netloc, and
\* the seed's netloc; it knows no file extensions
simple_is_valid_url(url) == SameDomain(url)

\* what fetch_page(url) may return: None (text FALSE), or response.text
\* (text TRUE), which is the empty string, false in `if html:`, or a document
\* whose links extract_links returns as a set of valid URLs
PageResults ==
  {[text |-> FALSE, html |-> FALSE, links |-> {}],
   [text |-> TRUE, html |-> FALSE, links |-> {}]} \cup
  {[text |-> TRUE, html |-> TRUE,
    links |-> {u \in raw : simple_is_valid_url(u)}] :
     raw \in {r \in SUBSET LinkedUrls : Cardinality(r) <= MaxLinks}}

\* the orders in which `for link in links` may run through the set links
IterationOrders(S) == {l \in [1..Cardinality(S) -> S] : Range(l) = S}

\* WebCrawler(seed_url, max_pages)
InitSimple ==
  /\ CrawlerIdle
  /\ FetchIdle
  /\ LimiterIdle
  /\ TokenIdle
  /\ LeakyIdle
  /\ ScrapeIdle
  /\ wc_pc = "loop"
  /\ wc_max_pages \in 1..MaxPagesBound
  /\ wc_visited = {}
  /\ wc_to_visit = <<start_url>>
  /\ wc_fetches = [u \in {} |-> 0]
  /\ wc_returned = {}
  /\ wc_stats = NoStatistics

\* what web_crawler.py leaves alone
notSimple == <<crawlVars, fetchVars, limiterVars, tokenVars, leakyVars, scrapeVars>>

\* fetch_page(u) is called once more
CountFetch(u) ==
  [v \in DOMAIN wc_fetches \cup {u} |->
     (IF v \in DOMAIN wc_fetches THEN wc_fetches[v] ELSE 0)
     + (IF v = u THEN 1 ELSE 0)]

\* web_crawler.py:127-151: one iteration of the while loop
SimpleIterate ==
  /\ wc_pc = "loop"
  /\ wc_to_visit # <<>> /\ Cardinality(wc_visited) < wc_max_pages
  /\ LET url == Head(wc_to_visit) IN
       IF url \in wc_visited
       THEN /\ wc_to_visit' = Tail(wc_to_visit)
            /\ UNCHANGED <<wc_visited, wc_fetches, wc_returned>>
       ELSE /\ wc_fetches' = CountFetch(url)
            /\ \E r \in PageResults :
                 /\ wc_returned' = IF r.text THEN wc_returned \cup {url}
                                   ELSE wc_returned
                 /\ IF r.html
                    THEN /\ wc_visited' = VisitedAdd(wc_visited, url)
                         /\ \E order \in IterationOrders(r.links) :
                              wc_to_visit' =
                                Enqueue(Tail(wc_to_visit),
                                        VisitedAdd(wc_visited, url), order)
                    ELSE /\ wc_to_visit' = Tail(wc_to_visit)
                         /\ UNCHANGED wc_visited
  /\ UNCHANGED <<wc_pc, wc_max_pages, wc_stats>>
  /\ UNCHANGED notSimple

\* the while condition is false: crawl() returns list(self.visited)
SimpleExit ==
  /\ wc_pc = "loop"
  /\ ~(wc_to_visit # <<>> /\ Cardinality(wc_visited) < wc_max_pages)
  /\ wc_pc' = "done"
  /\ UNCHANGED <<wc_max_pages, wc_visited, wc_to_visit, wc_fetches,
                 wc_returned, wc_stats>>
  /\ UNCHANGED notSimple

\* a dict whose visited_count is the length of the queue
get_statistics_counting_queue(order) ==
  [visited_count |-> Len(wc_to_visit),
   queue_size |-> Len(wc_to_visit),
   visited_urls |-> order]

\* web_crawler.py:158-169: the dict get_statistics returns; order is the
\* order in which list(self.visited) runs through the set
get_statistics(order) ==
  [visited_count |-> Cardinality(wc_visited),
   queue_size |-> Len(wc_to_visit),
   visited_urls |-> order]

\* get_statistics() is called, between two iterations of crawl() or after it
SimpleStatistics ==
  /\ wc_pc \in {"loop", "done"}
  /\ \E order \in IterationOrders(wc_visited) :
       wc_stats' = get_statistics(order)
  /\ UNCHANGED <<wc_pc, wc_max_pages, wc_visited, wc_to_visit, wc_fetches,
                 wc_returned>>
  /\ UNCHANGED notSimple

NextSimple == SimpleIterate \/ SimpleExit \/ SimpleStatistics

SpecSimple == InitSimple /\ [][NextSimple]_vars

\* C12: web_crawler.py's crawl passes each URL to fetch_page at most once,
\* also a URL whose fetch failed and to which a page fetched later links.
C12_FetchedAtMostOnce ==
  \A u \in DOMAIN wc_fetches : wc_fetches[u] <= 1


(***************************************************************************)
(* Specification of the end-to-end scenario: A -> B, C, D and B -> E       *)
(***************************************************************************)
\* the pages of the scenario
PageA == PageNames[1]
PageB == PageNames[2]
PageC == PageNames[3]
PageD == PageNames[4]
PageE == PageNames[5]

\* the seed A links to B, C and D, B links to E, and every fetch succeeds
EndToEndSite ==
  [open |-> FALSE,
   links |-> [u \in Pages |-> IF u = PageA THEN <<PageB, PageC, PageD>>
                              ELSE IF u = PageB THEN <<PageE>> ELSE <<>>],
   status |-> [u \in Pages |-> 200],
   raises |-> {}]

\* crawlers of the scenario's site with max_pages = 3
InitEndToEnd ==
  /\ impl \in {"threads", "async"}
  /\ max_pages = 3
  /\ max_workers \in WorkerCounts
  /\ site = EndToEndSite
  /\ seed = start_url
  /\ CrawlerConstructed
  /\ pc = "load"
  /\ FetchIdle
  /\ LimiterIdle
  /\ SimpleIdle
  /\ TokenIdle
  /\ LeakyIdle
  /\ ScrapeIdle

\* crawl() is called and runs: the main thread, the pool's workers and the
\* event loop are scheduled as long as one of them can take a step
SpecEndToEnd == InitEndToEnd /\ [][Next]_vars /\ WF_vars(Next)

\* the scenario proper: crawl.py, two workers, robots.txt refuses nothing
EndToEndCase ==
  /\ impl = "threads" /\ max_workers = 2
  /\ pc # "load"
  /\ \A u \in Pages : can_fetch(u)

\* C13: in the scenario crawl.py's crawl terminates, and it returns three
\* visited URLs, A among them, with E neither dequeued nor fetched.
C13_EndToEnd ==
  /\ [](EndToEndCase => /\ PageE \notin Removed
                        /\ PageE \notin requested
                        /\ PageE \notin visited_urls
                        /\ (pc = "done" =>
                              /\ Cardinality(visited_urls) = 3
                              /\ PageA \in visited_urls))
  /\ (EndToEndCase ~> pc = "done")

\* the crawl of the scenario has returned {A, B, C}, E still queued
C13_Witness ==
  /\ EndToEndCase /\ pc = "done"
  /\ visited_urls = {PageA, PageB, PageC}
  /\ PageE \in Range(to_visit)


(***************************************************************************)
(* Specification of TokenBucketRateLimiter under concurrent callers        *)
(***************************************************************************)
\* a limiter with a full bucket; nothing has called it
InitToken ==
  /\ CrawlerIdle
  /\ FetchIdle
  /\ LimiterIdle
  /\ SimpleIdle
  /\ LeakyIdle
  /\ ScrapeIdle
  /\ \E C \in 1..MaxRequestsBound, q \in 1..MaxTicksPerToken :
       TokenConstructed(C, q)

\* what the token bucket leaves alone
notToken == <<crawlVars, fetchVars, limiterVars, simpleVars, leakyVars, scrapeVars>>

\* a refill that forgets the capacity of the bucket
RefillUncapped(tokens, time_passed) == tokens + time_passed

\* min(self.max_requests,
\*     self.tokens + time_passed * self.max_requests / self.time_window)
Refill(tokens, time_passed) ==
  Min2(tb_max_requests * tb_ticks_per_token, tokens + time_passed)

\* a test that wants more than one token in the bucket
HasMoreThanAToken(tokens) == tokens > tb_ticks_per_token

\* a test that takes a token from a bucket holding only part of one
HasPartOfAToken(tokens) == tokens > 0

\* if self.tokens >= 1.0
HasToken(tokens) == tokens >= tb_ticks_per_token

\* wait_time = (1.0 - self.tokens) * self.time_window / self.max_requests
WaitTime(tokens) == tb_ticks_per_token - tokens

\* One iteration of `while True` run by coroutine c, which holds the lock,
\* for its call `call`: it refills the bucket and either takes a token and
\* returns, leaving the `async with` block, which hands the lock to the
\* first waiter, or sleeps, keeping the lock.
TokenIterate(c, call) ==
  LET now == tb_now
      tokens == Refill(tb_tokens, now - tb_last_update)
  IN /\ tb_last_update' = now
     /\ IF HasToken(tokens)
        THEN /\ tb_tokens' = tokens - tb_ticks_per_token
             /\ tb_admits' = Append(tb_admits, [issued |-> call.issued,
                                                at |-> now,
                                                sleeps |-> call.sleeps,
                                                wait |-> call.wait])
             /\ tb_call' = [tb_call EXCEPT ![c] = call]
             /\ IF tb_waiters = <<>>
                THEN /\ tb_holder' = 0
                     /\ tb_pc' = [tb_pc EXCEPT ![c] = "idle"]
                     /\ UNCHANGED tb_waiters
                ELSE /\ tb_holder' = Head(tb_waiters)
                     /\ tb_waiters' = Tail(tb_waiters)
                     /\ tb_pc' = [tb_pc EXCEPT ![c] = "idle",
                                               ![Head(tb_waiters)] = "granted"]
             /\ UNCHANGED tb_wake
        ELSE /\ tb_tokens' = tokens
             /\ tb_holder' = c
             /\ tb_pc' = [tb_pc EXCEPT ![c] = "sleeping"]
             /\ tb_wake' = [tb_wake EXCEPT ![c] = now + WaitTime(tokens)]
             /\ tb_call' = [tb_call EXCEPT ![c] =
                              [call EXCEPT !.sleeps = @ + 1,
                                           !.wait = WaitTime(tokens)]]
             /\ UNCHANGED <<tb_waiters, tb_admits>>

\* what no step of the limiter changes
tokenFrame ==
  /\ UNCHANGED <<tb_max_requests, tb_ticks_per_token>>
  /\ UNCHANGED notToken

\* coroutine c calls `await limiter.acquire()`: it suspends when the lock is
\* held, and otherwise takes the lock and runs the first iteration
TokenAcquire(c) ==
  /\ tb_pc[c] = "idle"
  /\ tb_calls[c] < MaxCalls
  /\ tb_calls' = [tb_calls EXCEPT ![c] = @ + 1]
  /\ IF tb_holder # 0
     THEN /\ tb_pc' = [tb_pc EXCEPT ![c] = "waiting"]
          /\ tb_waiters' = Append(tb_waiters, c)
          /\ tb_call' = [tb_call EXCEPT ![c] = NewCall(tb_now)]
          /\ UNCHANGED <<tb_tokens, tb_last_update, tb_holder, tb_wake,
                         tb_admits>>
     ELSE TokenIterate(c, NewCall(tb_now))
  /\ UNCHANGED tb_now
  /\ tokenFrame

\* the coroutine the lock was handed to runs: it enters the `async with` block
TokenGranted(c) ==
  /\ tb_pc[c] = "granted"
  /\ TokenIterate(c, tb_call[c])
  /\ UNCHANGED <<tb_now, tb_calls>>
  /\ tokenFrame

\* asyncio.sleep(wait_time) is over: the next iteration of `while True`
TokenWake(c) ==
  /\ tb_pc[c] = "sleeping"
  /\ tb_now >= tb_wake[c]
  /\ TokenIterate(c, tb_call[c])
  /\ UNCHANGED <<tb_now, tb_calls>>
  /\ tokenFrame

\* time.monotonic() advances
TokenTick ==
  /\ tb_now < MaxTime
  /\ tb_now' = tb_now + 1
  /\ UNCHANGED <<tb_tokens, tb_last_update, tb_holder, tb_waiters, tb_pc,
                 tb_wake, tb_call, tb_calls, tb_admits>>
  /\ tokenFrame

NextToken ==
  \/ \E c \in Callers : TokenAcquire(c) \/ TokenGranted(c) \/ TokenWake(c)
  \/ TokenTick

SpecToken == InitToken /\ [][NextToken]_vars

\* C15: starting from a full bucket of max_requests = C tokens, of the calls
\* of acquire() issued with no time passing the first C return at once,
\* without suspending, and the (C+1)-th suspends once, for time_window / C,
\* before it returns.
C15_BurstThenWait ==
  \A i \in 1..Len(tb_admits) :
     (\A j \in 1..i : tb_admits[j].issued = 0) =>
        /\ i <= tb_max_requests =>
             tb_admits[i].sleeps = 0 /\ tb_admits[i].at = 0
        /\ i = tb_max_requests + 1 =>
             /\ tb_admits[i].sleeps = 1
             /\ tb_admits[i].wait = tb_ticks_per_token
             /\ tb_admits[i].at >= tb_ticks_per_token

\* a burst of three calls on a bucket of two tokens: two returned at instant
\* 0, the third after a sleep of time_window / 2
C15_Witness ==
  /\ tb_max_requests = 2 /\ tb_ticks_per_token = 2
  /\ Len(tb_admits) >= 3
  /\ \A j \in 1..3 : tb_admits[j].issued = 0
  /\ tb_admits[2].at = 0
  /\ tb_admits[3].at = 2 /\ tb_admits[3].sleeps = 1

\* the calls admitted at instants in the interval [a, b]
TokensTakenIn(a, b) ==
  Cardinality({i \in 1..Len(tb_admits) :
                 a <= tb_admits[i].at /\ tb_admits[i].at <= b})

\* what holds of the bucket in every state
TokenBucketSafe ==
  /\ \A c \in Callers : tb_pc[c] \in {"sleeping", "granted"} => tb_holder = c
  /\ \A c \in Callers : tb_pc[c] = "waiting" <=> c \in Range(tb_waiters)
  /\ tb_holder = 0 => tb_waiters = <<>>
  /\ tb_tokens >= 0
  /\ tb_tokens <= tb_max_requests * tb_ticks_per_token
  /\ tb_ticks_per_token * Len(tb_admits) + tb_tokens
        <= tb_max_requests * tb_ticks_per_token + tb_last_update
  /\ \A a \in 0..tb_now : \A b \in a..tb_now :
        tb_ticks_per_token * TokensTakenIn(a, b)
           <= tb_max_requests * tb_ticks_per_token + (b - a)

\* what holds of every step that admits a call
TokenTakenPerAdmission ==
  Len(tb_admits') # Len(tb_admits) =>
     /\ Len(tb_admits') = Len(tb_admits) + 1
     /\ \E c \in Callers : /\ tb_pc[c] # "waiting" /\ tb_pc'[c] = "idle"
                           /\ tb_holder \in {0, c}
     /\ tb_tokens' =
          Min2(tb_max_requests * tb_ticks_per_token,
               tb_tokens + (tb_now - tb_last_update)) - tb_ticks_per_token

\* C17: with two or more coroutines calling acquire() on one token bucket,
\* only the coroutine holding the lock reads and updates the bucket, every
\* admission takes exactly one token from it, the admissions never outnumber
\* the tokens the bucket started with and was refilled with, and in any
\* interval of length t at most C + t * C / T calls are admitted.
C17_ConcurrentCallersSafe ==
  []TokenBucketSafe /\ [][TokenTakenPerAdmission]_vars

\* both coroutines were admitted, and now one sleeps in the block while the
\* other waits for the lock
C17_Witness ==
  /\ \A c \in Callers : \E i \in 1..Len(tb_admits) : tb_admits[i].at = 0
  /\ Len(tb_admits) >= 2
  /\ \E c \in Callers : tb_pc[c] = "sleeping"
  /\ \E c \in Callers : tb_pc[c] = "waiting"

(***************************************************************************)
(* Specification of LeakyBucketRateLimiter under concurrent callers        *)
(***************************************************************************)
\* a limiter that has admitted nothing; nothing has called it
InitLeaky ==
  /\ CrawlerIdle
  /\ FetchIdle
  /\ LimiterIdle
  /\ SimpleIdle
  /\ TokenIdle
  /\ \E spacing \in 1..MaxSpacing : LeakyConstructed(spacing)
  /\ ScrapeIdle

\* what the leaky bucket leaves alone
notLeaky ==
  <<crawlVars, fetchVars, limiterVars, simpleVars, tokenVars, scrapeVars>>

\* an issuance instant taken before the wait: the instant the block was entered
InstantBeforeWait(entered, now) == entered

\* self.last_request_time = time.monotonic(), read when the statement runs
InstantRecorded(entered, now) == now

\* The end of the `async with` block run by coroutine c for its call `call`,
\* entered at instant `entered`: the issuance instant is recorded, the call
\* returns and the lock goes to the first waiter.
LeakyAdmit(c, call, entered) ==
  /\ lb_last_request_time' = InstantRecorded(entered, lb_now)
  /\ lb_admits' = Append(lb_admits, [issued |-> call.issued,
                                     at |-> InstantRecorded(entered, lb_now),
                                     sleeps |-> call.sleeps,
                                     wait |-> call.wait])
  /\ IF lb_waiters = <<>>
     THEN /\ lb_holder' = 0
          /\ lb_pc' = [lb_pc EXCEPT ![c] = "idle"]
          /\ UNCHANGED lb_waiters
     ELSE /\ lb_holder' = Head(lb_waiters)
          /\ lb_waiters' = Tail(lb_waiters)
          /\ lb_pc' = [lb_pc EXCEPT ![c] = "idle",
                                    ![Head(lb_waiters)] = "granted"]

\* The `async with` block run by coroutine c, which holds the lock, from its
\* top to its end or to asyncio.sleep(wait_time), where c keeps the lock.
LeakyEnter(c, call) ==
  LET now == lb_now
      time_since_last == now - lb_last_request_time
      required_spacing == lb_spacing
      wait_time == required_spacing - time_since_last
  IN IF lb_last_request_time # NoRequestYet
        /\ time_since_last < required_spacing
     THEN /\ lb_holder' = c
          /\ lb_pc' = [lb_pc EXCEPT ![c] = "sleeping"]
          /\ lb_wake' = [lb_wake EXCEPT ![c] = now + wait_time]
          /\ lb_call' = [lb_call EXCEPT ![c] =
                           [call EXCEPT !.sleeps = @ + 1, !.wait = wait_time]]
          /\ UNCHANGED <<lb_last_request_time, lb_waiters, lb_admits>>
     ELSE /\ LeakyAdmit(c, call, now)
          /\ lb_call' = [lb_call EXCEPT ![c] = call]
          /\ UNCHANGED lb_wake

\* what no step of the limiter changes
leakyFrame ==
  /\ UNCHANGED lb_spacing
  /\ UNCHANGED notLeaky

\* coroutine c calls `await limiter.acquire()`: it suspends when the lock is
\* held, and otherwise takes the lock and enters the block
LeakyAcquire(c) ==
  /\ lb_pc[c] = "idle"
  /\ lb_calls[c] < MaxCalls
  /\ lb_calls' = [lb_calls EXCEPT ![c] = @ + 1]
  /\ IF lb_holder # 0
     THEN /\ lb_pc' = [lb_pc EXCEPT ![c] = "waiting"]
          /\ lb_waiters' = Append(lb_waiters, c)
          /\ lb_call' = [lb_call EXCEPT ![c] = NewCall(lb_now)]
          /\ UNCHANGED <<lb_last_request_time, lb_holder, lb_wake, lb_admits>>
     ELSE LeakyEnter(c, NewCall(lb_now))
  /\ UNCHANGED lb_now
  /\ leakyFrame

\* the coroutine the lock was handed to runs: it enters the block
LeakyGranted(c) ==
  /\ lb_pc[c] = "granted"
  /\ LeakyEnter(c, lb_call[c])
  /\ UNCHANGED <<lb_now, lb_calls>>
  /\ leakyFrame

\* asyncio.sleep(wait_time) is over: the block ends
LeakyWake(c) ==
  /\ lb_pc[c] = "sleeping"
  /\ lb_now >= lb_wake[c]
  /\ LeakyAdmit(c, lb_call[c], lb_wake[c] - lb_call[c].wait)
  /\ UNCHANGED <<lb_now, lb_calls, lb_call, lb_wake>>
  /\ leakyFrame

\* time.monotonic() advances
LeakyTick ==
  /\ lb_now < MaxTime
  /\ lb_now' = lb_now + 1
  /\ UNCHANGED <<lb_last_request_time, lb_holder, lb_waiters, lb_pc, lb_wake,
                 lb_call, lb_calls, lb_admits>>
  /\ leakyFrame

NextLeaky ==
  \/ \E c \in Callers : LeakyAcquire(c) \/ LeakyGranted(c) \/ LeakyWake(c)
  \/ LeakyTick

SpecLeaky == InitLeaky /\ [][NextLeaky]_vars

\* C16: with any number of coroutines calling a LeakyBucketRateLimiter, the
\* instants recorded at two consecutive admissions differ by at least
\* 1 / rate, the instant recorded is the one after the wait (the recorded
\* instant of a call that slept is not before the end of its sleep), and the
\* first call of acquire() is admitted without waiting.
C16_SpacingKept ==
  /\ \A i \in 1..Len(lb_admits) - 1 :
        lb_admits[i + 1].at - lb_admits[i].at >= lb_spacing
  /\ \A i \in 1..Len(lb_admits) :
        lb_admits[i].sleeps > 0 =>
           /\ lb_admits[i].at >= lb_admits[i].issued + lb_admits[i].wait
           /\ lb_admits[i].wait > 0
           /\ lb_admits[i].wait <= lb_spacing
  /\ lb_admits # <<>> =>
        /\ lb_admits[1].sleeps = 0
        /\ lb_admits[1].at = lb_admits[1].issued
        /\ lb_last_request_time = lb_admits[Len(lb_admits)].at
  /\ lb_admits = <<>> => lb_last_request_time = NoRequestYet

\* three admissions: the second slept and woke late, the third, of the other
\* coroutine, waited for the lock and then slept in its turn
C16_Witness ==
  /\ Len(lb_admits) >= 3
  /\ lb_admits[2].sleeps = 1
  /\ lb_admits[2].at > lb_admits[1].at + lb_spacing
  /\ lb_admits[3].sleeps = 1
  /\ lb_admits[3].issued < lb_admits[2].at

(***************************************************************************)
(* The size of a batch and the fetches in flight                           *)
(***************************************************************************)
\* what holds of every step that dispatches URLs to fetches
BatchWithinLimits ==
  (pc = "loop" /\ pc' = "wait") =>
     /\ Len(batch') <= max_workers
     /\ Len(batch') <= Len(to_visit)
     /\ Len(batch') <= max_pages - Cardinality(visited_urls)
     /\ DOMAIN task' = Range(batch')

\* C18: at every instant of a crawl (thread pool or async) at most
\* max_workers fetches are in flight, and every batch dispatched has at most
\* min(max_workers, len(to_visit), max_pages - len(visited_urls)) URLs, the
\* queue and the visited set taken as they were before the dequeue.
C18_ConcurrencyBound ==
  /\ [](Cardinality(InFlight) <= max_workers /\ InFlight \subseteq DOMAIN task)
  /\ [][BatchWithinLimits]_vars

\* two fetches of one batch of a thread pool of two workers are in flight
C18_Witness ==
  /\ impl = "threads" /\ max_workers = 2
  /\ Len(batch) = 2
  /\ InFlight = Range(batch)

(***************************************************************************)
(* The identity requests are sent with                                     *)
(***************************************************************************)
\* The User-Agent header of a request: that of the requests.Session
\* (crawl.py) or of the httpx.AsyncClient, set when the client is created
\* (crawl_async.py:275-278).
RequestUserAgent == header_ua

\* C21: in crawl_async.py every request that retries a URL is sent with the
\* user agent rotate_user_agent stored last.
C21_RetrySentWithRotatedAgent ==
  [][\A u \in DOMAIN task :
       (/\ impl = "async"
        /\ task[u].st = "ready" /\ task[u].retry_count > 0
        /\ u \in DOMAIN task' /\ task'[u].st = "inflight")
       => RequestUserAgent = current_user_agent]_vars

(***************************************************************************)
(* Specification of a crawl whose seed has a skipped extension             *)
(***************************************************************************)
\* crawl(start_url) puts start_url into to_visit as it is: is_valid_url is
\* applied to the links of fetched documents only (crawl.py:280-281, 249)
InitSeedFile ==
  /\ impl \in {"threads", "async"}
  /\ max_pages \in 1..MaxPagesSeedFile
  /\ max_workers \in 1..MaxWorkersBound
  /\ site = OpenSite
  /\ seed \in FileUrls
  /\ CrawlerConstructed
  /\ pc = "load"
  /\ FetchIdle
  /\ LimiterIdle
  /\ SimpleIdle
  /\ TokenIdle
  /\ LeakyIdle
  /\ ScrapeIdle

SpecSeedFile == InitSeedFile /\ [][Next]_vars

\* C22: no URL recorded in files_found is ever passed to a fetch.
C22_FilesNeverFetched ==
  /\ files_found \cap requested = {}
  /\ files_found \cap visited_urls = {}

(***************************************************************************)
(* The result of crawl() and the outcomes of the fetches                   *)
(***************************************************************************)
\* get_links(url) on the fixed site s
GetLinksOn(s, u) ==
  IF FetchFinal(NewContext, <<"status", s.status[u]>>)
  THEN ValidLinks(s.links[u])
  ELSE <<>>

RECURSIVE CrawlResultOn(_, _, _)
\* crawl.py:294-315 run to its end on the fixed site s from queue and
\* visited: the set `return self.visited_urls` hands to the caller
\* (crawl.py:364)
CrawlResultOn(s, queue, visited) ==
  IF queue = <<>> \/ Cardinality(visited) >= max_pages
  THEN visited
  ELSE LET url == Head(queue) IN
       IF ~Admits(url, visited)
       THEN CrawlResultOn(s, Tail(queue), visited)
       ELSE CrawlResultOn(s, Enqueue(Tail(queue), visited \cup {url},
                                    GetLinksOn(s, url)),
                          visited \cup {url})

\* the sites that differ from s only in whether the fetch of u succeeds
OtherOutcome(s, u) ==
  {t \in Sites :
     /\ t.links = s.links
     /\ \A v \in Pages \ {u} : t.status[v] = s.status[v]
     /\ FetchFinal(NewContext, <<"status", t.status[u]>>)
          # FetchFinal(NewContext, <<"status", s.status[u]>>)}

\* C23: the result of a single-threaded crawl differs from the result of the
\* crawl of every site that differs only in whether the fetch of one visited
\* URL without out-links succeeds or fails.
C23_ResultTellsFailureFromSuccess ==
  (pc = "done" /\ SingleThreaded /\ ~site.open) =>
     \A u \in visited_urls :
        site.links[u] = <<>> =>
           \A t \in OtherOutcome(site, u) :
              CrawlResultOn(t, <<seed>>, {}) # visited_urls

(***************************************************************************)
(* Specification of one crawl by any of the three crawlers                 *)
(***************************************************************************)
\* crawl() is called on a crawler of crawl.py or crawl_async.py, or on a
\* crawler of web_crawler.py
InitAllCrawlers == Init \/ InitSimple

NextAllCrawlers == Next \/ NextSimple

SpecAllCrawlers == InitAllCrawlers /\ [][NextAllCrawlers]_vars

\* C24: in each of the crawlers, no URL is both visited and queued, and no
\* URL is queued twice.
C24_QueueDisjointAndDuplicateFree ==
  /\ Range(to_visit) \cap visited_urls = {}
  /\ \A i, j \in 1..Len(to_visit) : to_visit[i] = to_visit[j] => i = j
  /\ Range(wc_to_visit) \cap wc_visited = {}
  /\ \A i, j \in 1..Len(wc_to_visit) : wc_to_visit[i] = wc_to_visit[j] => i = j

\* a crawl that visited two pages, found links in their documents (the
\* links offered include the seed, the page itself and repeated links) and
\* has the one page left queued
C24_Witness ==
  /\ pc = "loop"
  /\ Cardinality(fetched) >= 2
  /\ Len(to_visit) = 1

(***************************************************************************)
(* Specification of crawls of a site where two pages of one batch link to  *)
(* each other and to the same new page                                     *)
(***************************************************************************)
\* A links to B and C; B links to C and D; C links to B and twice to D; D
\* links back to A; B and C answer 200 or 503, every other page 200
SharedLinkSites ==
  {[open |-> FALSE,
    links |-> [u \in Pages |->
                 IF u = PageA THEN <<PageB, PageC>>
                 ELSE IF u = PageB THEN <<PageC, PageD>>
                 ELSE IF u = PageC THEN <<PageB, PageD, PageD>>
                 ELSE IF u = PageD THEN <<PageA>> ELSE <<>>],
    status |-> [u \in Pages |-> IF u = PageB THEN b
                                ELSE IF u = PageC THEN c ELSE 200],
    raises |-> {}] :
     b \in {200, 503}, c \in {200, 503}}

InitSharedLink ==
  /\ impl \in {"threads", "async"}
  /\ max_pages \in 1..NumPages
  /\ max_workers \in WorkerCounts
  /\ site \in SharedLinkSites
  /\ seed = start_url
  /\ CrawlerConstructed
  /\ pc = "load"
  /\ FetchIdle
  /\ LimiterIdle
  /\ SimpleIdle
  /\ TokenIdle
  /\ LeakyIdle
  /\ ScrapeIdle

SpecSharedLink == InitSharedLink /\ [][Next]_vars

RaisingSites ==
  {[open |-> FALSE,
    links |-> [u \in Pages |->
                 IF u = PageA THEN <<PageB, PageC>>
                 ELSE IF u = PageB THEN <<"f.pdf">>
                 ELSE IF u = PageC THEN <<PageD>> ELSE <<>>],
    status |-> [u \in Pages |-> IF u = PageB THEN b ELSE 200],
    raises |-> r] :
     b \in {200, 503}, r \in {{}, {PageA}, {PageB}}}

InitRaising ==
  /\ impl \in {"threads", "async"}
  /\ max_pages \in 1..NumPages
  /\ max_workers \in WorkerCounts
  /\ site \in RaisingSites
  /\ seed = start_url
  /\ CrawlerConstructed
  /\ pc = "load"
  /\ FetchIdle
  /\ LimiterIdle
  /\ SimpleIdle
  /\ TokenIdle
  /\ LeakyIdle
  /\ ScrapeIdle

\* crawl() is called and runs: the coordinator, the pool's workers and the
\* event loop are scheduled as long as one of them can take a step
SpecRaising == InitRaising /\ [][Next]_vars /\ WF_vars(Next)

\* C26: in the batch modes an exception of a fetch call never leaves
\* crawl(); when the coordinator takes the result of a call that returned,
\* every link it returned is visited or queued afterwards, whatever became
\* of the other calls of the batch; and every batch that was dispatched is
\* processed to its end, the loop going round again.
C26_BatchSurvivesFailedTask ==
  /\ [](~SingleThreaded => pc # "raised")
  /\ [][(pc = "wait" /\ ~SingleThreaded) =>
          \A u \in DOMAIN task \ DOMAIN task' :
             St(u) = "done" =>
               \A i \in 1..Len(task[u].links) :
                  \/ task[u].links[i] \in visited_urls
                  \/ task[u].links[i] \in Range(to_visit')]_vars
  /\ ((pc = "wait" /\ ~SingleThreaded) ~> (pc = "loop"))

\* B's call raised in the batch of B and C, C's link D was queued, and the
\* next batch fetched D
C26_Witness ==
  /\ pc = "done" /\ ~SingleThreaded
  /\ PageB \in site.raises /\ PageB \in fetched
  /\ PageD \in fetched

(***************************************************************************)
(* The list web_crawler.py's crawl returns                                 *)
(***************************************************************************)
\* C27: the list web_crawler.py's crawl returns has at most max_pages
\* entries, and it holds the seed whenever fetch_page returned the seed's
\* document.
C27_WithinBudgetAndHoldsSeed ==
  wc_pc = "done" =>
     /\ Cardinality(wc_visited) <= wc_max_pages
     /\ (start_url \in wc_returned => start_url \in wc_visited)

(***************************************************************************)
(* Specification of crawls of a site three links deep                      *)
(***************************************************************************)
PageF == PageNames[6]
PageG == PageNames[7]

\* A links to B, C and D; C links to E; D links to G; E links to F; every
\* fetch succeeds.  Every page but the seed has one page linking to it.
DeepSite ==
  [open |-> FALSE,
   links |-> [u \in Pages \cup DeepPages |->
                IF u = PageA THEN <<PageB, PageC, PageD>>
                ELSE IF u = PageC THEN <<PageE>>
                ELSE IF u = PageD THEN <<PageG>>
                ELSE IF u = PageE THEN <<PageF>> ELSE <<>>],
   status |-> [u \in Pages \cup DeepPages |-> 200],
   raises |-> {}]

\* the link depth at which the crawl of DeepSite first discovers each page
LinkDepth ==
  [u \in Pages \cup DeepPages |->
     IF u = PageA THEN 0
     ELSE IF u \in {PageB, PageC, PageD} THEN 1
     ELSE IF u \in {PageE, PageG} THEN 2 ELSE 3]

InitDeep ==
  /\ impl \in {"threads", "async"}
  /\ max_pages \in 1..Cardinality(Pages \cup DeepPages)
  /\ max_workers \in WorkerCounts
  /\ site = DeepSite
  /\ seed = start_url
  /\ CrawlerConstructed
  /\ pc = "load"
  /\ FetchIdle
  /\ LimiterIdle
  /\ SimpleIdle
  /\ TokenIdle
  /\ LeakyIdle
  /\ ScrapeIdle

SpecDeep == InitDeep /\ [][Next]_vars

\* C28: in crawl.py a URL first discovered at a greater link depth is never
\* dequeued while a discovered URL of a smaller depth waits in the queue,
\* and never dequeued ahead of one in the same batch.
C28_BreadthFirst ==
  impl = "threads" =>
    \A u, v \in Pages \cup DeepPages :
       LinkDepth[u] < LinkDepth[v] =>
          /\ ~(v \in Removed /\ u \notin Removed /\ u \in Range(to_visit))
          /\ ~\E i, j \in 1..Len(batch) :
                i < j /\ batch[i] = v /\ batch[j] = u

(***************************************************************************)
(* Specification of the thread-pool crawl with the workers followed link   *)
(* by link                                                                 *)
(***************************************************************************)
\* A's document names the file and links to B and C; B's names the file and
\* links back to A; C's links to another domain and names the file; every
\* fetch succeeds
LockSite ==
  [open |-> FALSE,
   links |-> [u \in Pages |->
                IF u = PageA THEN <<"f.pdf", PageB, PageC>>
                ELSE IF u = PageB THEN <<"f.pdf", PageA>>
                ELSE IF u = PageC THEN <<"x.org", "f.pdf">> ELSE <<>>],
   status |-> [u \in Pages |-> 200],
   raises |-> {}]

\* crawl.py with a thread pool
InitLock ==
  /\ impl = "threads"
  /\ max_pages \in 1..NumPages
  /\ max_workers \in WorkerCounts \ {1}
  /\ site = LockSite
  /\ seed = start_url
  /\ CrawlerConstructed
  /\ pc = "load"
  /\ FetchIdle
  /\ LimiterIdle
  /\ SimpleIdle
  /\ TokenIdle
  /\ LeakyIdle
  /\ ScrapeIdle

\* what a step of a worker inside get_links leaves alone
workerFrame ==
  <<config, robot_parser, agents, pc, to_visit, visited_urls, batch,
    semaphore, requested, dispatched, skipped, robots_load>>

\* the attempt of the worker on u ends: fetch_with_retry retries, or returns
\* to get_links, which returns [] when there is no response and otherwise
\* starts its loop over the links of the document (crawl.py:233-241)
Receive(u) ==
  /\ St(u) = "inflight"
  /\ \E d \in {FetchStep(ContextOf(task[u]), o, j) :
                    o \in OutcomesOf(u), j \in Jitters} :
       IF d.kind = "retry"
       THEN /\ task' = [task EXCEPT ![u].st = "ready",
                                    ![u].retry_count = d.retry_count]
            /\ IF d.rotate THEN RotateUserAgent ELSE UNCHANGED agents
            /\ UNCHANGED fetched
       ELSE /\ UNCHANGED agents
            /\ IF d.response
               THEN /\ \E raw \in LinksOf(u) :
                         task' = [task EXCEPT ![u].st = "parsing",
                                              ![u].pending = raw]
                    /\ fetched' = fetched \cup {u}
               ELSE /\ task' = [task EXCEPT ![u].st = "done"]
                    /\ UNCHANGED fetched
  /\ UNCHANGED notCrawl
  /\ UNCHANGED <<config, robot_parser, pc, to_visit, visited_urls, batch,
                 semaphore, requested, dispatched, skipped, robots_load,
                 files_found, lock>>

\* crawl.py:241-250 and 87-106: the loop of get_links takes the next link;
\* is_valid_url refuses a link of another domain, goes for self.lock on a
\* link with a skipped extension, and accepts any other
ExamineLink(u) ==
  /\ St(u) = "parsing" /\ task[u].pending # <<>>
  /\ LET link == Head(task[u].pending) IN
       task' = IF ~SameDomain(link)
               THEN [task EXCEPT ![u].pending = Tail(@)]
               ELSE IF HasSkipExtension(link)
               THEN [task EXCEPT ![u].st = "locking"]
               ELSE [task EXCEPT ![u].pending = Tail(@),
                                 ![u].links = Append(@, link)]
  /\ UNCHANGED notCrawl
  /\ UNCHANGED <<workerFrame, files_found, lock, fetched>>

\* with self.lock entered without acquiring the lock
AcquireLockSkipped(u) ==
  /\ St(u) = "locking"
  /\ task' = [task EXCEPT ![u].st = "locked"]
  /\ UNCHANGED lock
  /\ UNCHANGED notCrawl
  /\ UNCHANGED <<workerFrame, files_found, fetched>>

\* crawl.py:102: with self.lock: the worker waits until no thread holds the
\* lock and takes it
AcquireLock(u) ==
  /\ St(u) = "locking"
  /\ lock = Unlocked
  /\ lock' = u
  /\ task' = [task EXCEPT ![u].st = "locked"]
  /\ UNCHANGED notCrawl
  /\ UNCHANGED <<workerFrame, files_found, fetched>>

\* crawl.py:103: self.files_found.add(url)
AddFile(u) ==
  /\ St(u) = "locked"
  /\ files_found' = files_found \cup {Head(task[u].pending)}
  /\ task' = [task EXCEPT ![u].st = "added"]
  /\ UNCHANGED notCrawl
  /\ UNCHANGED <<workerFrame, lock, fetched>>

\* crawl.py:102-104: the with block is left, is_valid_url returns False
ReleaseLock(u) ==
  /\ St(u) = "added"
  /\ lock' = IF lock = u THEN Unlocked ELSE lock
  /\ task' = [task EXCEPT ![u].st = "parsing", ![u].pending = Tail(@)]
  /\ UNCHANGED notCrawl
  /\ UNCHANGED <<workerFrame, files_found, fetched>>

\* crawl.py:252 and 266-267: the loop is over, get_links and _crawl_url
\* return the links
ReturnLinks(u) ==
  /\ St(u) = "parsing" /\ task[u].pending = <<>>
  /\ task' = [task EXCEPT ![u].st = "done"]
  /\ UNCHANGED notCrawl
  /\ UNCHANGED <<workerFrame, files_found, lock, fetched>>

\* the steps of the workers
Worker(u) ==
  \/ SendRequest(u)
  \/ Receive(u)
  \/ ExamineLink(u)
  \/ AcquireLock(u)
  \/ AddFile(u)
  \/ ReleaseLock(u)
  \/ ReturnLinks(u)

\* the steps of the coordinator thread
Coordinator ==
  \/ LoadRobots
  \/ DequeueBatch
  \/ LoopExit
  \/ \E u \in URLs : ProcessResult(u)

NextLock == Coordinator \/ \E u \in URLs : Worker(u)

SpecLock == InitLock /\ [][NextLock]_vars

\* C29: in thread-pool mode a step of a worker leaves to_visit and
\* visited_urls as they are, and files_found changes only in a step of the
\* worker that holds self.lock before and after it.
C29_WorkersLeaveQueueAndVisited ==
  /\ [][(\E u \in URLs : Worker(u)) => UNCHANGED <<to_visit, visited_urls>>]_vars
  /\ [][files_found' # files_found =>
          /\ lock # Unlocked /\ lock' = lock
          /\ St(lock) = "locked"
          /\ \A u \in DOMAIN task \ {lock} : task'[u] = task[u]]_vars

\* a second worker waits for self.lock while the first, holding it, has
\* added the file
C29_Witness ==
  /\ \E u \in DOMAIN task : St(u) = "added" /\ lock = u
  /\ \E u \in DOMAIN task : St(u) = "locking"
  /\ "f.pdf" \in files_found

(***************************************************************************)
(* The visited set over a crawl                                            *)
(***************************************************************************)
\* C30: every step of crawl.py, crawl_async.py and web_crawler.py leaves in
\* the visited set every URL that was in it.
C30_VisitedOnlyGrows ==
  [][/\ visited_urls \subseteq visited_urls'
     /\ wc_visited \subseteq wc_visited']_vars

\* a crawl by crawl_async.py that has returned three visited URLs
C30_Witness ==
  /\ impl = "async" /\ pc = "done"
  /\ Cardinality(visited_urls) = 3

(***************************************************************************)
(* The statistics of web_crawler.py                                        *)
(***************************************************************************)
\* C31: every call of get_statistics returns visited_count = the number of
\* URLs in visited, queue_size = the number of URLs in to_visit, and
\* visited_urls listing exactly the URLs of visited, and leaves visited and
\* to_visit as they are.
C31_StatisticsMatchState ==
  [][wc_stats' # wc_stats =>
       /\ wc_stats'.visited_count = Cardinality(wc_visited)
       /\ wc_stats'.queue_size = Cardinality(Range(wc_to_visit))
       /\ Range(wc_stats'.visited_urls) = wc_visited
       /\ Len(wc_stats'.visited_urls) = Cardinality(wc_visited)
       /\ UNCHANGED <<wc_visited, wc_to_visit>>]_vars

\* statistics taken in the middle of a crawl: two visited, one queued
C31_Witness ==
  /\ wc_pc = "loop"
  /\ wc_stats.visited_count = 2 /\ wc_stats.queue_size = 1
  /\ Cardinality(wc_visited) = 2 /\ Len(wc_to_visit) = 1

(***************************************************************************)
(* The outcomes fetch_with_retry never retries                             *)
(***************************************************************************)
\* a 404, a status in none of the branches, an exception of the request that
\* is neither a timeout nor a connection error
FatalOutcomes ==
  {<<"status", c>> :
     c \in StatusCodes \ {200, 301, 302, 401, 403, 429, 500, 503}}
  \cup {<<"reqexc", 0>>}

\* C32: the attempt that ends in a 404, in a status outside {200, 301, 302,
\* 401, 403, 429, 500, 503} or in an exception other than a timeout or a
\* connection error makes the call return None at once, without a sleep and
\* without another request, at every retry_count; a call that has returned
\* does nothing more.
C32_FatalOutcomeReturnsNone ==
  /\ [][(f_pc = "request" /\ f_log' # f_log
                          /\ f_log'[Len(f_log')] \in FatalOutcomes) =>
          /\ f_pc' = "returned" /\ f_result' = "None"
          /\ f_delay' = 0 /\ f_slept' = f_slept
          /\ f_attempts' = f_attempts]_vars
  /\ [][f_pc = "returned" =>
          UNCHANGED <<f_pc, f_result, f_attempts, f_slept>>]_vars

\* a call that was retried twice and returned None on a 404
C32_Witness ==
  /\ f_pc = "returned" /\ f_result = "None"
  /\ Len(f_log) = 3 /\ f_log[3] = <<"status", 404>>
  /\ f_ctx.retry_count = 2

(***************************************************************************)
(* The delay before each retry                                             *)
(***************************************************************************)
\* C33: the retry after attempt number a, a being the number of attempts the
\* call made before it whatever they ended in, is preceded by a sleep of
\* retry_delay_base^a seconds for 500/503 and connection errors, of
\* retry_delay_base^a plus at most one second for 429, and of one second
\* for 401/403 and timeouts.
C33_DelayBeforeRetry ==
  [][(f_pc = "request" /\ f_pc' = "sleep") =>
       LET a == Len(f_log)
           o == f_log'[Len(f_log')]
           exp == Pow(retry_delay_base, a) * TicksPerSecond
       IN /\ a = f_ctx.retry_count /\ a < max_retries
          /\ f_ctx'.retry_count = a + 1
          /\ (o \in {<<"status", 500>>, <<"status", 503>>, <<"connerr", 0>>}
                => f_delay' = exp)
          /\ (o = <<"status", 429>>
                => f_delay' >= exp /\ f_delay' <= exp + TicksPerSecond)
          /\ (o \in {<<"status", 401>>, <<"status", 403>>, <<"timeout", 0>>}
                => f_delay' = TicksPerSecond)]_vars

\* after a 403 and a timeout, the third attempt met 503: a sleep of 2^2 s
C33_Witness ==
  /\ f_pc = "sleep"
  /\ f_log = <<(<<"status", 403>>), (<<"timeout", 0>>), (<<"status", 503>>)>>
  /\ f_delay = 4 * TicksPerSecond

(***************************************************************************)
(* The timeout handed to the request                                       *)
(***************************************************************************)
\* the attempts of the call that ended in a timeout and were retried
RetriedTimeouts ==
  {i \in 1..Len(f_log) : i <= f_ctx.retry_count /\ f_log[i] = <<"timeout", 0>>}

\* C34: the timeout in use is 10 s plus 5 s for each attempt that timed out
\* and was retried, whatever the other attempts ended in; it is at most
\* 10 + 5 * max_retries.
C34_TimeoutGrowsByFive ==
  /\ f_ctx.timeout = 10 + 5 * Cardinality(RetriedTimeouts)
  /\ f_ctx.timeout =
       DefaultTimeout + TimeoutIncrement * Cardinality(RetriedTimeouts)
  /\ f_ctx.timeout <= 10 + 5 * max_retries

\* a timeout, a 503 and a second timeout were retried: the fourth request is
\* made with 20 s
C34_Witness ==
  /\ f_pc = "request"
  /\ f_log = <<(<<"timeout", 0>>), (<<"status", 503>>), (<<"timeout", 0>>)>>
  /\ f_ctx.timeout = 20

(***************************************************************************)
(* Termination of crawl()                                                  *)
(***************************************************************************)
\* the steps a call of fetch_with_retry can still take at most: a request
\* and its answer for the attempt at hand and for every retry left, and the
\* coordinator taking the result
StepsLeft(t) ==
  IF t.st = "ready" THEN 2 * (max_retries - t.retry_count) + 3
  ELSE IF t.st = "inflight" THEN 2 * (max_retries - t.retry_count) + 2
  ELSE 1
RECURSIVE SumStepsLeft(_)
SumStepsLeft(S) ==
  IF S = {} THEN 0
  ELSE LET u == CHOOSE v \in S : TRUE IN
         StepsLeft(task[u]) + SumStepsLeft(S \ {u})
\* the coordinator's position: 2 before robots.txt is read, 1 at the head
\* of the loop, 0 while it waits for a batch and after crawl() left
PhaseLeft == IF pc = "load" THEN 2 ELSE IF pc = "loop" THEN 1 ELSE 0
\* a result enqueues at most MaxLinks URLs and may send the coordinator to
\* the head of the loop
TaskWeight == MaxLinks + 2
\* a dispatched URL starts one call of fetch_with_retry
VisitWeight == TaskWeight * (2 * max_retries + 3) + 1
\* A bound on the steps crawl() can still take: it counts the URLs the
\* budget still admits, the steps the calls in flight can take, the queue
\* and the coordinator's phase.
CrawlBound ==
  VisitWeight * (max_pages - Cardinality(visited_urls))
  + TaskWeight * SumStepsLeft(DOMAIN task)
  + Len(to_visit) + PhaseLeft

Capacity == tb_max_requests * tb_ticks_per_token

\* C36: the token count is within [0, max_requests] in every state, and so
\* is the count a refill at the current instant would assign before a token
\* is taken; last_update never decreases.
C36_TokensWithinBucket ==
  /\ [](/\ 0 <= tb_tokens /\ tb_tokens <= Capacity
        /\ 0 <= Refill(tb_tokens, tb_now - tb_last_update)
        /\ Refill(tb_tokens, tb_now - tb_last_update) <= Capacity)
  /\ [][tb_last_update' >= tb_last_update]_vars

\* a bucket of two tokens that was emptied and refilled in part: a caller
\* sleeps in the block holding the lock while the other waits for it, and
\* the bucket holds part of a token
C36_Witness ==
  /\ tb_max_requests = 2
  /\ tb_last_update > 0
  /\ 0 < tb_tokens /\ tb_tokens < tb_ticks_per_token
  /\ Len(tb_admits) >= 2
  /\ \E c \in Callers : tb_pc[c] = "sleeping"
  /\ \E c \in Callers : tb_pc[c] = "waiting"

(***************************************************************************)
(* The Playwright scraper: ResponseHandler.handle_response,                *)
(* QuoteScraper.scrape_page and QuoteScraper.scrape_all                    *)
(***************************************************************************)
\* what the scraper leaves alone
notScrape ==
  <<crawlVars, fetchVars, limiterVars, simpleVars, tokenVars, leakyVars>>

\* page.goto returned None
NoResponse == 0
\* what page.goto can return: a response with one of these status codes, or
\* None
ScrapeResponses ==
  {NoResponse, 200, 302, 401, 403, 404, 418, 429, 500, 503}
\* no next page: extract_next_page_url returned None
NoUrl == "none"
\* return [], None
EmptyResult == [quotes |-> NoUrl, next |-> NoUrl]

\* The values handle_response hands back: True, False, or what
\* retry_callback returned, which is the tuple scrape_page returned.
BoolValue(b) == [kind |-> "bool", bool |-> b, tuple |-> EmptyResult]
TupleValue(r) == [kind |-> "tuple", bool |-> FALSE, tuple |-> r]
\* the truth value Python gives v in `if not is_ok`: a tuple of two
\* elements is true whatever it holds
Truthy(v) == IF v.kind = "bool" THEN v.bool ELSE TRUE

\* the statuses handle_response retries
ScrapeRetryable(status) == status \in {401, 403, 429, 500, 503}
\* asyncio.sleep(2), asyncio.sleep((2 ** retry_count) + 1),
\* asyncio.sleep(2 ** retry_count), in seconds
ScrapeBackoff(status, retry_count) ==
  IF status \in {401, 403} THEN 2
  ELSE IF status = 429 THEN 2 ^ retry_count + 1
  ELSE 2 ^ retry_count

\* handle_response(response, url, retry_callback, retry_count) up to its
\* first await: it returns True or False, or sleeps and then calls
\* retry_callback(retry_count + 1)
handle_response(status, retry_count) ==
  IF status = NoResponse THEN [kind |-> "return", bool |-> FALSE, delay |-> 0]
  ELSE IF status = 200 THEN [kind |-> "return", bool |-> TRUE, delay |-> 0]
  ELSE IF status = 404 THEN [kind |-> "return", bool |-> FALSE, delay |-> 0]
  ELSE IF ScrapeRetryable(status)
  THEN IF retry_count < ScrapeMaxRetries
       THEN [kind |-> "retry", bool |-> FALSE,
             delay |-> ScrapeBackoff(status, retry_count)]
       ELSE [kind |-> "return", bool |-> FALSE, delay |-> 0]
  ELSE IF status >= 400 THEN [kind |-> "return", bool |-> FALSE, delay |-> 0]
  ELSE [kind |-> "return", bool |-> TRUE, delay |-> 0]

\* scrape_url_task(url) created by the list comprehension and started by
\* gather: it has not entered `async with semaphore`.  retry_count is the
\* nesting level of the scrape_page call that runs, is_ok[k + 1] what
\* handle_response handed to the call of level k, waited the levels that
\* reached wait_for_selector, exhausted whether some level ran out of
\* retries on a retryable status.
NewScrapeTask ==
  [pc |-> "acquire", retry_count |-> 0, delay |-> 0, ret |-> EmptyResult,
   is_ok |-> <<>>, waited |-> {}, exhausted |-> FALSE]

ScrapeSt(u) == IF u \in DOMAIN qs_task THEN qs_task[u].pc ELSE "none"
ScrapeTimes(u) == IF u \in DOMAIN qs_scrapes THEN qs_scrapes[u] ELSE 0

\* async with semaphore: entered; scrape_page(url) is called
ScrapeAcquire(u) ==
  /\ ScrapeSt(u) = "acquire"
  /\ qs_semaphore > 0
  /\ qs_semaphore' = qs_semaphore - 1
  /\ qs_task' = [qs_task EXCEPT ![u].pc = "navigate"]
  /\ qs_scrapes' = [v \in DOMAIN qs_scrapes \cup {u} |->
                      ScrapeTimes(v) + IF v = u THEN 1 ELSE 0]
  /\ UNCHANGED <<qs_pc, qs_max_pages, qs_max_concurrent, qs_to_visit,
                 qs_visited_urls, qs_page_count, qs_batch, qs_all_quotes,
                 qs_page>>
  /\ UNCHANGED notScrape

\* scrape_page lines 64-75: browser.navigate(url) on the shared page, then
\* handle_response, which answers at once or sleeps before the retry
ScrapeNavigate(u) ==
  /\ ScrapeSt(u) = "navigate"
  /\ qs_page' = u
  /\ \E status \in ScrapeResponses :
       LET t == qs_task[u]
           h == handle_response(status, t.retry_count)
       IN qs_task' =
            [qs_task EXCEPT ![u] =
               IF h.kind = "retry"
               THEN [t EXCEPT !.pc = "sleep", !.delay = h.delay,
                              !.is_ok = Append(t.is_ok, "pending")]
               ELSE IF h.bool
               THEN [t EXCEPT !.pc = "selector",
                              !.is_ok = Append(t.is_ok, "True")]
               ELSE [t EXCEPT !.pc = "return", !.ret = EmptyResult,
                              !.is_ok = Append(t.is_ok, "False"),
                              !.exhausted = ScrapeRetryable(status)]]
  /\ UNCHANGED <<qs_pc, qs_max_pages, qs_max_concurrent, qs_to_visit,
                 qs_visited_urls, qs_page_count, qs_batch, qs_all_quotes,
                 qs_semaphore, qs_scrapes>>
  /\ UNCHANGED notScrape

\* the sleep of handle_response is over: retry_callback(retry_count + 1),
\* which is self.scrape_page(url, rc, use_scroll)
ScrapeRetry(u) ==
  /\ ScrapeSt(u) = "sleep"
  /\ qs_task' = [qs_task EXCEPT ![u].pc = "navigate", ![u].delay = 0,
                                ![u].retry_count = @ + 1]
  /\ UNCHANGED <<qs_pc, qs_max_pages, qs_max_concurrent, qs_to_visit,
                 qs_visited_urls, qs_page_count, qs_batch, qs_all_quotes,
                 qs_semaphore, qs_page, qs_scrapes>>
  /\ UNCHANGED notScrape

\* return await retry_callback(retry_count + 1): handle_response hands back
\* what the nested scrape_page returned
RetryResult(r) == TupleValue(r)

\* The scrape_page call of level retry_count returns ret: to scrape_url_task
\* when it is the outermost, and otherwise through handle_response to the
\* call one level up, which tests `if not is_ok`.
ScrapeReturn(u) ==
  /\ ScrapeSt(u) = "return"
  /\ LET t == qs_task[u]
         k == t.retry_count
         v == RetryResult(t.ret)
     IN qs_task' =
          [qs_task EXCEPT ![u] =
             IF k = 0 THEN [t EXCEPT !.pc = "lock"]
             ELSE IF Truthy(v)
             THEN [t EXCEPT !.pc = "selector", !.retry_count = k - 1,
                            !.is_ok = [@ EXCEPT ![k] = "tuple"]]
             ELSE [t EXCEPT !.pc = "return", !.retry_count = k - 1,
                            !.ret = EmptyResult,
                            !.is_ok = [@ EXCEPT ![k] = "False"]]]
  /\ UNCHANGED <<qs_pc, qs_max_pages, qs_max_concurrent, qs_to_visit,
                 qs_visited_urls, qs_page_count, qs_batch, qs_all_quotes,
                 qs_semaphore, qs_page, qs_scrapes>>
  /\ UNCHANGED notScrape

\* scrape_page line 78: wait_for_selector('.quote', timeout=10000) on the
\* page as it is now; the element appears, or Playwright raises TimeoutError,
\* which no level catches: the task ends with it and leaves the semaphore
ScrapeSelector(u) ==
  /\ ScrapeSt(u) = "selector"
  /\ \E found \in BOOLEAN :
       /\ qs_task' = [qs_task EXCEPT
                        ![u].pc = IF found THEN "parse" ELSE "raised",
                        ![u].waited = @ \cup {qs_task[u].retry_count}]
       /\ qs_semaphore' = IF found THEN qs_semaphore ELSE qs_semaphore + 1
  /\ UNCHANGED <<qs_pc, qs_max_pages, qs_max_concurrent, qs_to_visit,
                 qs_visited_urls, qs_page_count, qs_batch, qs_all_quotes,
                 qs_page, qs_scrapes>>
  /\ UNCHANGED notScrape

\* scrape_page lines 86-94: the quotes and the next link are read from the
\* shared page, whatever it shows now
ScrapeParse(u) ==
  /\ ScrapeSt(u) = "parse"
  /\ \E next \in QuotePages \cup {NoUrl} :
       qs_task' = [qs_task EXCEPT ![u].pc = "return",
                                  ![u].ret = [quotes |-> qs_page,
                                              next |-> next]]
  /\ UNCHANGED <<qs_pc, qs_max_pages, qs_max_concurrent, qs_to_visit,
                 qs_visited_urls, qs_page_count, qs_batch, qs_all_quotes,
                 qs_semaphore, qs_page, qs_scrapes>>
  /\ UNCHANGED notScrape

\* scrape_url_task lines 131-136, under the lock and without an await:
\* all_quotes.extend(quotes); the next URL is queued when it is new
ScrapeRecord(u) ==
  /\ ScrapeSt(u) = "lock"
  /\ LET r == qs_task[u].ret IN
       /\ qs_all_quotes' = IF r.quotes = NoUrl THEN qs_all_quotes
                           ELSE Append(qs_all_quotes, r.quotes)
       /\ qs_to_visit' =
            IF /\ r.next # NoUrl /\ r.next \notin qs_visited_urls
               /\ r.next \notin Range(qs_to_visit)
            THEN Append(qs_to_visit, r.next) ELSE qs_to_visit
  /\ qs_task' = [qs_task EXCEPT ![u].pc = "delay"]
  /\ UNCHANGED <<qs_pc, qs_max_pages, qs_max_concurrent, qs_visited_urls,
                 qs_page_count, qs_batch, qs_semaphore, qs_page, qs_scrapes>>
  /\ UNCHANGED notScrape

\* await asyncio.sleep(self.delay) is over; the task leaves the semaphore
ScrapeRelease(u) ==
  /\ ScrapeSt(u) = "delay"
  /\ qs_task' = [qs_task EXCEPT ![u].pc = "done"]
  /\ qs_semaphore' = qs_semaphore + 1
  /\ UNCHANGED <<qs_pc, qs_max_pages, qs_max_concurrent, qs_to_visit,
                 qs_visited_urls, qs_page_count, qs_batch, qs_all_quotes,
                 qs_page, qs_scrapes>>
  /\ UNCHANGED notScrape

\* while to_visit and (max_pages is None or page_count < max_pages)
ScrapeLoopCondition == qs_to_visit # <<>> /\ qs_page_count < qs_max_pages

\* min(max_concurrent, len(to_visit), max_pages - page_count)
ScrapeBatchSize ==
  Min2(qs_max_concurrent,
       Min2(Len(qs_to_visit), qs_max_pages - qs_page_count))

RECURSIVE ScrapeTakeWithoutMarking(_, _, _, _)
\* a dequeue loop that does not add the URL to visited_urls
ScrapeTakeWithoutMarking(n, queue, visited, b) ==
  IF n = 0 \/ queue = <<>>
  THEN [to_visit |-> queue, visited_urls |-> visited, batch |-> b]
  ELSE IF Head(queue) \in visited
  THEN ScrapeTakeWithoutMarking(n - 1, Tail(queue), visited, b)
  ELSE ScrapeTakeWithoutMarking(n - 1, Tail(queue), visited,
                                Append(b, Head(queue)))

RECURSIVE ScrapeTake(_, _, _, _)
\* for _ in range(batch_size): popleft; a URL that is not visited is added
\* to visited_urls and to the batch and counted
ScrapeTake(n, queue, visited, b) ==
  IF n = 0 \/ queue = <<>>
  THEN [to_visit |-> queue, visited_urls |-> visited, batch |-> b]
  ELSE IF Head(queue) \in visited
  THEN ScrapeTake(n - 1, Tail(queue), visited, b)
  ELSE ScrapeTake(n - 1, Tail(queue), visited \cup {Head(queue)},
                  Append(b, Head(queue)))

\* scrape_all lines 140-162: one round of the loop down to gather
ScrapeDequeue ==
  /\ qs_pc = "loop" /\ ScrapeLoopCondition
  /\ LET r == ScrapeTake(ScrapeBatchSize, qs_to_visit, qs_visited_urls, <<>>)
     IN /\ qs_to_visit' = r.to_visit
        /\ qs_visited_urls' = r.visited_urls
        /\ qs_batch' = r.batch
        /\ qs_page_count' = qs_page_count + Len(r.batch)
        /\ qs_task' = [u \in Range(r.batch) |-> NewScrapeTask]
        /\ qs_pc' = IF r.batch = <<>> THEN "done" ELSE "gather"
  /\ UNCHANGED <<qs_max_pages, qs_max_concurrent, qs_all_quotes,
                 qs_semaphore, qs_page, qs_scrapes>>
  /\ UNCHANGED notScrape

\* the while condition is false: scrape_all returns all_quotes
ScrapeExit ==
  /\ qs_pc = "loop" /\ ~ScrapeLoopCondition
  /\ qs_pc' = "done"
  /\ UNCHANGED <<qs_max_pages, qs_max_concurrent, qs_to_visit,
                 qs_visited_urls, qs_page_count, qs_batch, qs_all_quotes,
                 qs_semaphore, qs_task, qs_page, qs_scrapes>>
  /\ UNCHANGED notScrape

\* await asyncio.gather(*tasks): every task of the batch has returned
ScrapeGathered ==
  /\ qs_pc = "gather"
  /\ \A u \in Range(qs_batch) : ScrapeSt(u) = "done"
  /\ qs_pc' = "loop"
  /\ qs_task' = [u \in {} |-> NewScrapeTask]
  /\ UNCHANGED <<qs_max_pages, qs_max_concurrent, qs_to_visit,
                 qs_visited_urls, qs_page_count, qs_batch, qs_all_quotes,
                 qs_semaphore, qs_page, qs_scrapes>>
  /\ UNCHANGED notScrape

\* gather passes on the first exception of a task: scrape_all ends with it,
\* and the other tasks of the batch are not cancelled
ScrapeGatherRaises ==
  /\ qs_pc = "gather"
  /\ \E u \in Range(qs_batch) : ScrapeSt(u) = "raised"
  /\ qs_pc' = "raised"
  /\ UNCHANGED <<qs_max_pages, qs_max_concurrent, qs_to_visit,
                 qs_visited_urls, qs_page_count, qs_batch, qs_all_quotes,
                 qs_semaphore, qs_task, qs_page, qs_scrapes>>
  /\ UNCHANGED notScrape

ScrapeTaskStep(u) ==
  \/ ScrapeAcquire(u)
  \/ ScrapeNavigate(u)
  \/ ScrapeRetry(u)
  \/ ScrapeReturn(u)
  \/ ScrapeSelector(u)
  \/ ScrapeParse(u)
  \/ ScrapeRecord(u)
  \/ ScrapeRelease(u)

NextScrape ==
  \/ ScrapeDequeue
  \/ ScrapeExit
  \/ ScrapeGathered
  \/ ScrapeGatherRaises
  \/ \E u \in QuotePages : ScrapeTaskStep(u)

\* scrape_all(max_pages, max_concurrent) called on a started scraper
InitScrape ==
  /\ CrawlerIdle
  /\ FetchIdle
  /\ LimiterIdle
  /\ SimpleIdle
  /\ TokenIdle
  /\ LeakyIdle
  /\ qs_pc = "loop"
  /\ \E mp \in 1..MaxScrapePages, mc \in 1..MaxWorkersBound :
       ScraperStarted(mp, mc)

SpecScrape == InitScrape /\ [][NextScrape]_vars

\* C37: when every attempt on a page was answered with a retryable status
\* and the retries ran out, handle_response hands a false value to every
\* scrape_page call of the nest, and none of them waits for the selector.
C37_ExhaustedRetriesYieldFalse ==
  \A u \in DOMAIN qs_task :
     qs_task[u].exhausted =>
        /\ \A k \in 1..Len(qs_task[u].is_ok) :
              qs_task[u].is_ok[k] \in {"pending", "False"}
        /\ qs_task[u].waited = {}

\* the scrape_page calls in progress
ScrapesInProgress ==
  {u \in DOMAIN qs_task :
     qs_task[u].pc \in {"navigate", "sleep", "selector", "parse", "return"}}

\* C40: in every state of scrape_all page_count is the number of URLs in
\* visited_urls and is at most max_pages, no URL was handed to
\* scrape_url_task twice, and at most max_concurrent scrape_page calls are
\* in progress.
C40_ScrapeAllWithinLimits ==
  /\ qs_page_count = Cardinality(qs_visited_urls)
  /\ qs_page_count <= qs_max_pages
  /\ \A u \in QuotePages : ScrapeTimes(u) <= 1
  /\ Cardinality(ScrapesInProgress) <= qs_max_concurrent
  /\ qs_semaphore >= 0

\* two pages were scraped and recorded and the third of three is being
\* scraped, on a retry: the budget is reached with a scrape_page call in
\* progress
C40_Witness ==
  /\ qs_max_pages = MaxScrapePages
  /\ qs_page_count = qs_max_pages
  /\ Len(qs_all_quotes) = 2
  /\ ScrapesInProgress # {}
  /\ \E u \in ScrapesInProgress : qs_task[u].retry_count > 0

(***************************************************************************)
(* Fetched documents in web_crawler.py's crawl                             *)
(***************************************************************************)
\* C38: in web_crawler.py's crawl every URL for which fetch_page returned a
\* document, an empty one included, is in visited once its iteration of the
\* loop is over.
C38_FetchedIsVisited == \A u \in wc_returned : u \in wc_visited

(***************************************************************************)
(* A fetch that resolved as failed                                         *)
(***************************************************************************)
\* the call on u returned and fetch_with_retry had returned None to it
FailedFetch(u) == St(u) = "done" /\ u \notin fetched

\* C39: when the fetch of u resolves as failed, get_links returns the empty
\* list and the step changes none of to_visit, visited_urls and
\* files_found; when the coordinator processes the results, the failed
\* ones enqueue nothing: to_visit receives the links of the other results
\* it processes in that step and nothing else, visited_urls and files_found
\* stay as they are, and u is still in visited_urls.
C39_FailedFetchChangesNothing ==
  /\ [](\A u \in DOMAIN task :
          FailedFetch(u) => task[u].links = <<>> /\ u \in visited_urls)
  /\ [][\A u \in DOMAIN task :
          (St(u) = "inflight" /\ u \in DOMAIN task' /\ task'[u].st = "done"
              /\ u \notin fetched') =>
             UNCHANGED <<to_visit, visited_urls, files_found>>]_vars
  /\ [][LET gone == DOMAIN task \ DOMAIN task'
            failed == {u \in gone : FailedFetch(u)}
        IN failed # {} =>
             /\ to_visit' = EnqueueAll(to_visit, visited_urls,
                                       FilterSeq(batch, gone \ failed), task)
             /\ UNCHANGED <<visited_urls, files_found>>
             /\ failed \subseteq visited_urls']_vars

\* a batch of two was processed in which one fetch failed and the other
\* returned a document: the failed URL is visited
C39_Witness ==
  /\ pc = "loop" /\ Len(batch) = 2
  /\ \E u \in Range(batch) :
       u \in requested /\ u \notin fetched /\ u \in visited_urls
  /\ \E v \in Range(batch) : v \in fetched

=============================================================================
